---- MODULE Spec2Model ----
(***************************************************************************)
(* The Command Info view-model of vscode-powershell                        *)
(* (src/src/controls/commandInfoViewModel.ts) as a state machine.          *)
(*                                                                         *)
(* One action per public handler of CommandInfoViewModel.  The view        *)
(* functions injected into the view-model are the DOM ones of the webview  *)
(* script (src/unnamed/part_002); the host may send back the state of a    *)
(* "setState" message it was just sent, or a state of no command.          *)
(*                                                                         *)
(* Spec is the view-model alone, HostSpec the view-model with the webview  *)
(* script and CommandInfoViewProvider (src/src/features/GetCommands.ts),   *)
(* ProviderSpec the provider alone, sent any message at any time.          *)
(* Three parts are looked at on their own: SortSpec sorts arrays of fields *)
(* with compareParameterInputObjects as its test does, ExplorerSpec is     *)
(* GetCommandsFeature.CommandExplorerRefresh, and WebviewSpec the DOM      *)
(* webview of src/src/controls/commandInfoWebview.ts.                      *)
(*                                                                         *)
(* Encodings: JS null is Null, JS undefined is Undefined, a null position  *)
(* is NullPosition; a Record<string, T> is a function on its set of keys.  *)
(* The opaque `parameters` map of ICommand is the set of its keys; the     *)
(* aliases, attributes and help message of a parameter are read by no code *)
(* of the view-model and are left out.                                     *)
(***************************************************************************)
EXTENDS Integers, Sequences, FiniteSets, TLC

VARIABLES
    command,              \* CommandInfoViewModel.command
    selectedParameterSet, \* CommandInfoViewModel.selectedParameterSet
    parameterSetInputs,   \* CommandInfoViewModel.parameterSetInputs
    loadedFrom,           \* the argument of the onCommandChanged call that built the loaded state
    leftSet,              \* the parameter set the selection last moved away from, with its fields then
    lastOp,               \* the handler that ran last, with its arguments
    viewCalls,            \* the view functions that handler called, in order
    posted,               \* the messages that handler posted to the host, in order
    thrown,               \* whether that handler ended by throwing
    webviewState,         \* CommandInfoViewProvider.webviewState
    selectedCommand,      \* CommandInfoViewProvider.selectedCommand
    pc,                   \* where onViewChangedVisibility of the provider stands
    toView,               \* the messages the provider posted to the webview, not yet received
    toHost,               \* the messages the view-model posted to the provider, not yet received
    hostDid,              \* the effects of the provider's handling of the last message it received
    visible,              \* CommandInfoViewProvider.view.visible
    activeTextEditor,     \* vscode.window.activeTextEditor
    providerOp,           \* the method of the provider that was called last, with its arguments
    commandSetSince,      \* whether setCommand was called after webviewState was last assigned
    declared,             \* the fields of a parameter set as map gives them, in declaration order
    sorted,               \* that array after sort(compareParameterInputObjects)
    result,               \* what the server answered to the last powerShell/getCommand request
    exclusions,           \* the setting sideBar.CommandExplorerExcludeFilter
    powerShellCommands,   \* CommandsExplorerProvider.powerShellCommands
    welcomeMessage,       \* the element welcomeMessage of the DOM webview
    commandName,          \* the variable commandName of its script
    elementCommandName,   \* the text of its element commandName
    elementCommandModule, \* the text of its element commandModule
    selectParameterSet,   \* its dropdown: the options, and which one is selected
    divParameterForms,    \* its forms, one for each parameter set
    webviewEvent          \* the event that the DOM webview handled last

vars == <<command, selectedParameterSet, parameterSetInputs,
          loadedFrom, leftSet, lastOp, viewCalls, posted, thrown,
          webviewState, selectedCommand, pc, toView, toHost, hostDid,
          visible, activeTextEditor, providerOp, commandSetSince,
          declared, sorted, result, exclusions, powerShellCommands,
          welcomeMessage, commandName, elementCommandName, elementCommandModule,
          selectParameterSet, divParameterForms, webviewEvent>>

viewModelVars == <<command, selectedParameterSet, parameterSetInputs,
                   loadedFrom, leftSet, lastOp, viewCalls, posted, thrown>>

providerVars == <<webviewState, selectedCommand, pc, toView, toHost, hostDid,
                  visible, activeTextEditor, providerOp, commandSetSince>>

\* what is recorded of the calls of the provider
callVars == <<providerOp, commandSetSince>>

viewState == <<command, selectedParameterSet, parameterSetInputs>>

sortVars == <<declared, sorted>>

explorerVars == <<result, exclusions, powerShellCommands>>

webviewVars == <<welcomeMessage, commandName, elementCommandName, elementCommandModule,
                 selectParameterSet, divParameterForms, webviewEvent>>

\* the variables of the parts that are looked at on their own
partVars == <<sortVars, explorerVars, webviewVars>>

----------------------------------------------------------------------------
(* Bounds of the model *)

\* the largest number of parameter sets of a command
MaxSets == 2

\* the largest number of parameters of a parameter set in the sorting commands
MaxParams == 3

----------------------------------------------------------------------------
(* JavaScript values *)

Null == [null |-> TRUE]

Undefined == [undefined |-> TRUE]

\* `position: number | null` of a parameter input: the null
NullPosition == -1

\* the position PowerShell reports for a parameter that is not positional,
\* -2147483648
UnsetPosition == (-2147483647) - 1

\* a vscode.TextEditor with a selection
TextEditor == [selection |-> <<0, 33>>]

\* {} as a Record<string, CommandInfoParameterInput[]>
EmptyRecord == [k \in {} |-> <<>>]

RECURSIVE SeqMap(_, _)
SeqMap(F(_), s) == IF s = <<>> THEN <<>> ELSE <<F(Head(s))>> \o SeqMap(F, Tail(s))

RECURSIVE SeqFilter(_, _)
SeqFilter(P(_), s) ==
    IF s = <<>> THEN <<>>
    ELSE (IF P(Head(s)) THEN <<Head(s)>> ELSE <<>>) \o SeqFilter(P, Tail(s))

\* Array.prototype.find: the first element satisfying P, or Undefined
RECURSIVE SeqFind(_, _)
SeqFind(P(_), s) ==
    IF s = <<>> THEN Undefined
    ELSE IF P(Head(s)) THEN Head(s) ELSE SeqFind(P, Tail(s))

Range(s) == {s[i] : i \in DOMAIN s}

----------------------------------------------------------------------------
(* The commands the host can send *)

commonParameterNames ==
    {"Debug", "ErrorAction", "ErrorVariable", "InformationAction",
     "InformationVariable", "OutVariable", "OutBuffer", "PipelineVariable",
     "ProgressAction", "Verbose", "WarningAction", "WarningVariable"}

\* parameterType strings, as their comma-separated segments
SwitchParameterType ==
    <<"System.Management.Automation.SwitchParameter", " System.Management.Automation">>
StringType == <<"System.String", " System.Private.CoreLib">>
StringArrayType == <<"System.String[]", " System.Private.CoreLib">>
SwitchParameterArrayType ==
    <<"System.Management.Automation.SwitchParameter[]", " System.Management.Automation">>
OtherSwitchParameterType == <<"SampleModule.SwitchParameter", " SampleModule">>

Parameter(name, type, mandatory, position, pipeline) ==
    [name |-> name, parameterType |-> type, isMandatory |-> mandatory,
     position |-> position, valueFromPipeline |-> pipeline]

\* The parameters of the sample command of the tests, with two more, in an
\* order that is sorted by no criterion of compareParameterInputObjects.
ParamPool ==
    << Parameter("Verbose", SwitchParameterType, FALSE, UnsetPosition, FALSE),
       Parameter("WhatIf", SwitchParameterType, FALSE, UnsetPosition, FALSE),
       Parameter("Force", SwitchParameterType, FALSE, UnsetPosition, FALSE),
       Parameter("Name", StringType, FALSE, 1, FALSE),
       Parameter("OutVariable", StringType, FALSE, UnsetPosition, FALSE),
       Parameter("Path", StringArrayType, TRUE, 0, TRUE) >>

PoolLen == Len(ParamPool)

\* Parameters of a name that differs from a common one by its case only, of a
\* type whose name goes on after that of the switch type, of a type of another
\* namespace called as the switch type is, and of the position -1.
TypePool ==
    << Parameter("verbose", StringType, TRUE, UnsetPosition, TRUE),
       Parameter("Recurse", SwitchParameterArrayType, FALSE, 2, FALSE),
       Parameter("Filter", OtherSwitchParameterType, FALSE, -1, TRUE) >>

ParamNames == {ParamPool[i].name : i \in 1..PoolLen} \cup {TypePool[i].name : i \in DOMAIN TypePool}

\* len parameters of the pool in declaration order, from the start-th on, cyclically
Window(start, len) == [i \in 1..len |-> ParamPool[((start + i - 2) % PoolLen) + 1]]

SetNamePool == <<"Path", "LiteralPath", "ByName", "ById">>

FallbackSetName == "__AllParameterSets"

\* n parameter sets; the sets from the d-th on are default ones (none if d = 0);
\* set k has the len parameters of the pool from the (start+k-1)-th on.
MkCommand(n, d, dflt, module, start, len) ==
    [name |-> "Import-FileWildcard",
     moduleName |-> module,
     defaultParameterSet |-> dflt,
     parameters |-> {Window(start + k - 1, len)[i].name : k \in 1..n, i \in 1..len},
     parameterSets |->
        [k \in 1..n |-> [name |-> SetNamePool[k],
                         isDefault |-> (d > 0 /\ k >= d),
                         parameters |-> Window(start + k - 1, len)]]]

DefaultNames == {""} \cup {SetNamePool[k] : k \in 1..MaxSets} \cup {"None"}

\* every number of sets, every choice of default sets and of defaultParameterSet;
\* one parameter in each set
SelectionCommands ==
    {MkCommand(n, d, dflt, "SampleModule", PoolLen, 1) :
        n \in 0..MaxSets, d \in 0..MaxSets, dflt \in DefaultNames}

\* two sets that share the parameter Verbose: Path, Verbose and Verbose, WhatIf
SharedCommands == {MkCommand(2, 1, "", "SampleModule", PoolLen, 2)}

\* one set, every window of MaxParams parameters of the pool
SortCommands ==
    {MkCommand(1, 1, "", "SampleModule", s, MaxParams) : s \in 1..PoolLen}

\* commands of no module, with and without parameters
ModuleCommands ==
    {MkCommand(n, n, "", "", PoolLen, l) : n \in 0..1, l \in 0..1}

\* command.parameterSets.push({ name: "__AllParameterSets", ... }) when it is empty
WithFallback(c) ==
    IF Len(c.parameterSets) = 0
    THEN [c EXCEPT !.parameterSets =
            <<[name |-> FallbackSetName, isDefault |-> TRUE, parameters |-> <<>>]>>]
    ELSE c

\* one set, of the parameters of TypePool
TypeCommands ==
    {[name |-> "Import-FileWildcard",
      moduleName |-> "SampleModule",
      defaultParameterSet |-> "",
      parameters |-> {TypePool[i].name : i \in DOMAIN TypePool},
      parameterSets |-> <<[name |-> SetNamePool[1], isDefault |-> TRUE,
                            parameters |-> TypePool]>>]}

BaseCommands ==
    SelectionCommands \cup SharedCommands \cup SortCommands \cup ModuleCommands
        \cup TypeCommands

\* A caller that keeps the object it passed sends it again with the fallback set in it.
Commands == BaseCommands \cup {WithFallback(c) : c \in BaseCommands}

----------------------------------------------------------------------------
(* createParameterInputObject and compareParameterInputObjects *)

\* parameterType.startsWith("System.Management.Automation.SwitchParameter"):
\* the prefix holds no comma, so the first segment decides
StartsWithSwitchParameter(type) ==
    type[1] \in {"System.Management.Automation.SwitchParameter",
                 "System.Management.Automation.SwitchParameter[]"}

\* a derivation that takes the name of a common parameter in whatever case
createParameterInputObject_AnyCase(parameter) ==
    LET isSwitch == StartsWithSwitchParameter(parameter.parameterType)
        tooltip ==
            << <<"Type: ", parameter.parameterType[1]>> >>
            \o (IF parameter.position >= 0
                THEN << <<"Position: ", ToString(parameter.position)>> >> ELSE <<>>)
            \o (IF parameter.isMandatory THEN << <<"Mandatory">> >> ELSE << <<"Optional">> >>)
            \o (IF parameter.valueFromPipeline
                THEN << <<"Can receive value from pipeline">> >> ELSE <<>>)
    IN  [name |-> parameter.name,
         required |-> parameter.isMandatory,
         common |-> parameter.name \in commonParameterNames \cup {"verbose"},
         tooltip |-> tooltip,
         position |-> IF parameter.position >= 0 THEN parameter.position ELSE NullPosition,
         inputType |-> IF isSwitch THEN "checkbox" ELSE "text",
         value |-> IF isSwitch THEN FALSE ELSE ""]

\* a derivation that takes the position 0 for no position
createParameterInputObject_PositivePosition(parameter) ==
    LET isSwitch == StartsWithSwitchParameter(parameter.parameterType)
        tooltip ==
            << <<"Type: ", parameter.parameterType[1]>> >>
            \o (IF parameter.position > 0
                THEN << <<"Position: ", ToString(parameter.position)>> >> ELSE <<>>)
            \o (IF parameter.isMandatory THEN << <<"Mandatory">> >> ELSE << <<"Optional">> >>)
            \o (IF parameter.valueFromPipeline
                THEN << <<"Can receive value from pipeline">> >> ELSE <<>>)
    IN  [name |-> parameter.name,
         required |-> parameter.isMandatory,
         common |-> parameter.name \in commonParameterNames,
         tooltip |-> tooltip,
         position |-> IF parameter.position > 0 THEN parameter.position ELSE NullPosition,
         inputType |-> IF isSwitch THEN "checkbox" ELSE "text",
         value |-> IF isSwitch THEN FALSE ELSE ""]

\* The tooltip is the sequence of its lines, a line the sequence of its pieces.
createParameterInputObject(parameter) ==
    LET isSwitch == StartsWithSwitchParameter(parameter.parameterType)
        tooltip ==
            << <<"Type: ", parameter.parameterType[1]>> >>
            \o (IF parameter.position >= 0
                THEN << <<"Position: ", ToString(parameter.position)>> >> ELSE <<>>)
            \o (IF parameter.isMandatory THEN << <<"Mandatory">> >> ELSE << <<"Optional">> >>)
            \o (IF parameter.valueFromPipeline
                THEN << <<"Can receive value from pipeline">> >> ELSE <<>>)
    IN  [name |-> parameter.name,
         required |-> parameter.isMandatory,
         common |-> parameter.name \in commonParameterNames,
         tooltip |-> tooltip,
         position |-> IF parameter.position >= 0 THEN parameter.position ELSE NullPosition,
         inputType |-> IF isSwitch THEN "checkbox" ELSE "text",
         value |-> IF isSwitch THEN FALSE ELSE ""]

\* The names of the model in the order String.prototype.localeCompare gives them
LocaleOrder ==
    <<"Debug", "Filter", "Force", "Missing", "Name", "OutVariable", "Path", "Recurse",
      "verbose", "Verbose", "WhatIf">>

LocaleIndex(name) == CHOOSE i \in DOMAIN LocaleOrder : LocaleOrder[i] = name

localeCompare(a, b) ==
    IF LocaleIndex(a) < LocaleIndex(b) THEN -1
    ELSE IF LocaleIndex(a) > LocaleIndex(b) THEN 1 ELSE 0

\* a comparer that does not look at `common`
compareParameterInputObjects_NoCommon(a, b) ==
    IF a.position # NullPosition /\ b.position # NullPosition
    THEN a.position - b.position
    ELSE IF a.position = NullPosition /\ b.position = NullPosition
    THEN localeCompare(a.name, b.name)
    ELSE (IF a.position # NullPosition THEN -1 ELSE 1)

\* the comparer of the comment of the function: by position first, whatever
\* `common` is, then the fields of no position by `common` and by name
compareParameterInputObjects_PositionFirst(a, b) ==
    IF a.position # NullPosition /\ b.position # NullPosition
    THEN a.position - b.position
    ELSE IF a.position # NullPosition \/ b.position # NullPosition
    THEN (IF a.position # NullPosition THEN -1 ELSE 1)
    ELSE IF a.common # b.common
    THEN (IF b.common THEN -1 ELSE 1)
    ELSE localeCompare(a.name, b.name)

\* a comparer whose last return does not look at which of the two has a position
compareParameterInputObjects_MixedFirst(a, b) ==
    IF a.common # b.common
    THEN (IF b.common THEN -1 ELSE 1)
    ELSE IF a.position # NullPosition /\ b.position # NullPosition
    THEN a.position - b.position
    ELSE IF a.position = NullPosition /\ b.position = NullPosition
    THEN localeCompare(a.name, b.name)
    ELSE -1

compareParameterInputObjects(a, b) ==
    IF a.common # b.common
    THEN (IF b.common THEN -1 ELSE 1)
    ELSE IF a.position # NullPosition /\ b.position # NullPosition
    THEN a.position - b.position
    ELSE IF a.position = NullPosition /\ b.position = NullPosition
    THEN localeCompare(a.name, b.name)
    ELSE (IF a.position # NullPosition THEN -1 ELSE 1)

\* Array.prototype.sort is stable: x goes before the first element that compares greater
RECURSIVE InsertInput(_, _)
InsertInput(s, x) ==
    IF s = <<>> THEN <<x>>
    ELSE IF compareParameterInputObjects(x, Head(s)) < 0 THEN <<x>> \o s
    ELSE <<Head(s)>> \o InsertInput(Tail(s), x)

RECURSIVE SortInputs(_)
SortInputs(s) ==
    IF s = <<>> THEN <<>>
    ELSE InsertInput(SortInputs(SubSeq(s, 1, Len(s) - 1)), s[Len(s)])

----------------------------------------------------------------------------
(* The steps of onCommandChanged *)

\* JSON.stringify(command) === JSON.stringify(this.command).  The commands of
\* the model are plain data with their keys in one order, on which
\* JSON.stringify is injective, and JSON.stringify(null) is "null".
JSONstringify(c) ==
    IF c = Null THEN <<"null">>
    ELSE <<"{", c.name, c.moduleName, c.defaultParameterSet, c.parameterSets,
           c.parameters, "}">>

\* a handler without the skip of the command it has
SameCommand_Never(c, current) == FALSE

SameCommand(c, current) == JSONstringify(c) = JSONstringify(current)

SetNames(cmd) == SeqMap(LAMBDA set : set.name, cmd.parameterSets)

\* a derivation that keeps the value of an input of the same name in a set of
\* the same name
DeriveInputs_KeepValues(cmd) ==
    [n \in Range(SetNames(cmd)) |->
        LET last == CHOOSE k \in DOMAIN cmd.parameterSets :
                        /\ cmd.parameterSets[k].name = n
                        /\ \A j \in DOMAIN cmd.parameterSets :
                              cmd.parameterSets[j].name = n => j <= k
            fresh == SortInputs(SeqMap(createParameterInputObject,
                                       cmd.parameterSets[last].parameters))
            Kept(p) ==
                IF n \in DOMAIN parameterSetInputs
                      /\ \E i \in DOMAIN parameterSetInputs[n] :
                             parameterSetInputs[n][i].name = p.name
                THEN [p EXCEPT !.value =
                        parameterSetInputs[n][CHOOSE i \in DOMAIN parameterSetInputs[n] :
                                                 parameterSetInputs[n][i].name = p.name].value]
                ELSE p
        IN  SeqMap(Kept, fresh)]

\* this.parameterSetInputs = {}; for (const parameterSet of command.parameterSets) ...
\* (of two sets of one name the later one stays)
DeriveInputs(cmd) ==
    [n \in Range(SetNames(cmd)) |->
        LET last == CHOOSE k \in DOMAIN cmd.parameterSets :
                        /\ cmd.parameterSets[k].name = n
                        /\ \A j \in DOMAIN cmd.parameterSets :
                              cmd.parameterSets[j].name = n => j <= k
        IN  SortInputs(SeqMap(createParameterInputObject,
                              cmd.parameterSets[last].parameters))]

\* command.defaultParameterSet ||
\*     (command.parameterSets.find((set) => set.isDefault)?.name ?? command.parameterSets[0].name)
InitialSelection(cmd) ==
    IF cmd.defaultParameterSet # ""
    THEN cmd.defaultParameterSet
    ELSE LET found == SeqFind(LAMBDA set : set.isDefault, cmd.parameterSets)
         IN  IF found # Undefined THEN found.name ELSE cmd.parameterSets[1].name

----------------------------------------------------------------------------
(* The view functions and the host *)

\* Object.values(this.parameterSetInputs).length > 0, without the flat()
HasParameters_NoFlat(inputs) == DOMAIN inputs # {}

\* Object.values(this.parameterSetInputs).flat().length > 0
HasParameters(inputs) == \E n \in DOMAIN inputs : Len(inputs[n]) > 0

\* the argument viewSetCommandElements gives to view.setCommandElements
CommandElements(cmd, inputs, selected) ==
    [fn |-> "setCommandElements",
     arg |-> [commandName |-> cmd.name,
              moduleName |-> cmd.moduleName,
              moduleLoaded |-> (cmd.moduleName = "" \/ HasParameters(inputs)),
              parameterSets |-> SetNames(cmd),
              selectedParameterSet |-> selected]]

\* a view call that reads the selection as it was when the handler started
ParameterInputs_Stale(inputs, selected) ==
    IF selectedParameterSet \in DOMAIN inputs
    THEN [fn |-> "setParameterInputs", arg |-> inputs[selectedParameterSet]]
    ELSE [fn |-> "setParameterInputs", undefined |-> TRUE]

\* view.setParameterInputs(this.parameterSetInputs[this.selectedParameterSet]);
\* the call has no arg when the selected name is no key, that is, when it is
\* given undefined
ParameterInputs(inputs, selected) ==
    IF selected \in DOMAIN inputs
    THEN [fn |-> "setParameterInputs", arg |-> inputs[selected]]
    ELSE [fn |-> "setParameterInputs", undefined |-> TRUE]

\* setParameterInputs of the webview script calls parameterInputs.forEach:
\* a TypeError when it is given undefined
ViewThrows(call) == call.fn = "setParameterInputs" /\ "arg" \notin DOMAIN call

StateOf(cmd, inputs, selected) ==
    [command |-> cmd, parameterSetInputs |-> inputs, selectedParameterSet |-> selected]

\* the message persistState posts
SetStateMessage(cmd, inputs, selected) ==
    [type |-> "setState", payload |-> [newState |-> StateOf(cmd, inputs, selected)]]

----------------------------------------------------------------------------
(* The handlers of CommandInfoViewModel *)

\* the state of `new CommandInfoViewModel(...)`
Init ==
    /\ command = Null
    /\ selectedParameterSet = ""
    /\ parameterSetInputs = EmptyRecord
    /\ loadedFrom = Null
    /\ leftSet = Null
    /\ lastOp = [op |-> "constructor"]
    /\ viewCalls = <<>>
    /\ posted = <<>>
    /\ thrown = FALSE
    /\ webviewState = Null
    /\ selectedCommand = Undefined
    /\ pc = "idle"
    /\ toView = <<>>
    /\ toHost = <<>>
    /\ hostDid = <<>>
    /\ visible = TRUE
    /\ activeTextEditor = TextEditor
    /\ providerOp = [op |-> "resolveWebviewView"]
    /\ commandSetSince = FALSE
    /\ declared = <<>>
    /\ sorted = <<>>
    /\ result = <<>>
    /\ exclusions = <<>>
    /\ powerShellCommands = <<>>
    /\ welcomeMessage = [hidden |-> FALSE]
    /\ commandName = ""
    /\ elementCommandName = ""
    /\ elementCommandModule = ""
    /\ selectParameterSet = [options |-> <<>>, selectedIndex |-> 0, hidden |-> FALSE]
    /\ divParameterForms = <<>>
    /\ webviewEvent = "DOMContentLoaded"

\* The webview script runs again when the webview is loaded again: a new view-model.
constructor ==
    /\ command' = Null
    /\ selectedParameterSet' = ""
    /\ parameterSetInputs' = EmptyRecord
    /\ loadedFrom' = Null
    /\ leftSet' = Null
    /\ lastOp' = [op |-> "constructor"]
    /\ viewCalls' = <<>>
    /\ posted' = <<>>
    /\ thrown' = FALSE

\* the two calls made before this.selectedParameterSet is assigned
Render_BeforeSelection(cmd, inputs, selected) ==
    <<CommandElements(cmd, inputs, selectedParameterSet),
      ParameterInputs(inputs, selectedParameterSet)>>

\* viewSetCommandElements(); viewSetParameterInputs(); with the state given
Render(cmd, inputs, selected) ==
    <<CommandElements(cmd, inputs, selected), ParameterInputs(inputs, selected)>>

\* a restore that derives the inputs from the command again
onSetState_Derives(state) ==
    LET inputs == IF state.command = Null THEN state.parameterSetInputs
                  ELSE DeriveInputs(state.command)
    IN  /\ lastOp' = [op |-> "onSetState", state |-> state]
        /\ command' = state.command
        /\ parameterSetInputs' = inputs
        /\ selectedParameterSet' = state.selectedParameterSet
        /\ IF state.command = Null
           THEN /\ viewCalls' = <<>>
                /\ thrown' = TRUE
           ELSE LET calls == Render(state.command, inputs, state.selectedParameterSet)
                IN  /\ viewCalls' = calls
                    /\ thrown' = ViewThrows(calls[2])
        /\ posted' = <<>>
        /\ IF state.command = command
           THEN UNCHANGED <<loadedFrom, leftSet>>
           ELSE loadedFrom' = Null /\ leftSet' = Null

onSetState(state) ==
    /\ lastOp' = [op |-> "onSetState", state |-> state]
    /\ command' = state.command
    /\ parameterSetInputs' = state.parameterSetInputs
    /\ selectedParameterSet' = state.selectedParameterSet
    /\ IF state.command = Null
       THEN \* viewSetCommandElements throws "this.command is null"
            /\ viewCalls' = <<>>
            /\ thrown' = TRUE
       ELSE LET calls == Render(state.command, state.parameterSetInputs,
                                state.selectedParameterSet)
            IN  /\ viewCalls' = calls
                /\ thrown' = ViewThrows(calls[2])
    /\ posted' = <<>>
    /\ IF state.command = command
       THEN UNCHANGED <<loadedFrom, leftSet>>
       ELSE loadedFrom' = Null /\ leftSet' = Null

\* .filter((parameterInput) => parameterInput.value): true, or a non-empty string
IsSet(parameterInput) ==
    IF parameterInput.inputType = "checkbox" THEN parameterInput.value
    ELSE parameterInput.value # ""

\* whether an input of old that has a value has an input of its name, in a set
\* of its set's name, in new
SharesSetInput(old, new) ==
    \E n \in DOMAIN old \cap DOMAIN new :
        \E i \in DOMAIN old[n], j \in DOMAIN new[n] :
            old[n][i].name = new[n][j].name /\ IsSet(old[n][i])

\* a load that sorts the parameters of the command's sets, as it sorts the fields
LoadResult_SortsInPlace(c) ==
    LET cmd == WithFallback(c)
        inputs == DeriveInputs(cmd)
        Sorted(set) ==
            [set EXCEPT !.parameters =
                [i \in DOMAIN set.parameters |->
                    CHOOSE p \in Range(set.parameters) : p.name = inputs[set.name][i].name]]
    IN  StateOf([cmd EXCEPT !.parameterSets = SeqMap(Sorted, cmd.parameterSets)],
                inputs, InitialSelection(cmd))

\* the state onCommandChanged(c) builds when it does not skip c
LoadResult(c) ==
    LET cmd == WithFallback(c)
    IN  StateOf(cmd, DeriveInputs(cmd), InitialSelection(cmd))

\* LoadResult of every command of the model, computed once
Loads == [c \in Commands |-> LoadResult(c)]

onCommandChanged(c) ==
    /\ posted' = <<>>
    /\ IF SameCommand(c, command)
       THEN /\ lastOp' = [op |-> "onCommandChanged", command |-> c, replacedValues |-> FALSE]
            /\ viewCalls' = <<>>
            /\ thrown' = FALSE
            /\ UNCHANGED <<command, selectedParameterSet, parameterSetInputs,
                           loadedFrom, leftSet>>
       ELSE LET new == Loads[c]
                calls == Render(new.command, new.parameterSetInputs,
                                new.selectedParameterSet)
            IN  /\ lastOp' = [op |-> "onCommandChanged", command |-> c,
                               replacedValues |->
                                   SharesSetInput(parameterSetInputs, new.parameterSetInputs)]
                /\ command' = new.command
                /\ parameterSetInputs' = new.parameterSetInputs
                /\ selectedParameterSet' = new.selectedParameterSet
                /\ viewCalls' = calls
                /\ thrown' = ViewThrows(calls[2])
                /\ loadedFrom' = c
                /\ leftSet' = Null

\* a handler without the early return
SelectionUnchanged_Never(selected) == FALSE

\* if (this.selectedParameterSet === selected) { return; }
SelectionUnchanged(selected) == selectedParameterSet = selected

\* the set the selection leaves, with its fields
Leave(inputs, from) ==
    IF from \in DOMAIN inputs THEN [name |-> from, inputs |-> inputs[from]] ELSE Null

\* whether selecting `selected` comes back to the set the selection last left
Returns(selected) ==
    selected # selectedParameterSet /\ leftSet # Null /\ leftSet.name = selected

\* a handler that derives the inputs of the command again when the selection changes
onSelectedParameterSetChanged_Rederive(selected) ==
    LET inputs == IF command = Null THEN parameterSetInputs ELSE DeriveInputs(command)
        call == ParameterInputs(inputs, selected)
    IN  /\ lastOp' = [op |-> "onSelectedParameterSetChanged", selected |-> selected,
                       returned |-> Returns(selected)]
        /\ UNCHANGED <<command, loadedFrom>>
        /\ IF SelectionUnchanged(selected)
           THEN /\ viewCalls' = <<>>
                /\ posted' = <<>>
                /\ thrown' = FALSE
                /\ UNCHANGED <<selectedParameterSet, parameterSetInputs, leftSet>>
           ELSE /\ selectedParameterSet' = selected
                /\ parameterSetInputs' = inputs
                /\ leftSet' = Leave(parameterSetInputs, selectedParameterSet)
                /\ viewCalls' = <<call>>
                /\ thrown' = ViewThrows(call)
                /\ posted' = IF ViewThrows(call) THEN <<>>
                             ELSE <<SetStateMessage(command, inputs, selected)>>

onSelectedParameterSetChanged(selected) ==
    /\ lastOp' = [op |-> "onSelectedParameterSetChanged", selected |-> selected,
                   returned |-> Returns(selected)]
    /\ UNCHANGED <<command, parameterSetInputs, loadedFrom>>
    /\ IF SelectionUnchanged(selected)
       THEN /\ viewCalls' = <<>>
            /\ posted' = <<>>
            /\ thrown' = FALSE
            /\ UNCHANGED <<selectedParameterSet, leftSet>>
       ELSE LET call == ParameterInputs(parameterSetInputs, selected)
            IN  /\ selectedParameterSet' = selected
                /\ leftSet' = Leave(parameterSetInputs, selectedParameterSet)
                /\ viewCalls' = <<call>>
                /\ thrown' = ViewThrows(call)
                /\ posted' = IF ViewThrows(call) THEN <<>>
                             ELSE <<SetStateMessage(command, parameterSetInputs, selected)>>

\* the index of the first input called name, 0 when there is none
FindInput(list, name) ==
    IF \E i \in DOMAIN list : list[i].name = name
    THEN CHOOSE i \in DOMAIN list :
            list[i].name = name /\ \A j \in 1..(i - 1) : list[j].name # name
    ELSE 0

\* an assignment to the inputs called name of every set
SetValue_AllSets(inputs, selected, name, value) ==
    [n \in DOMAIN inputs |->
        [i \in DOMAIN inputs[n] |->
            IF inputs[n][i].name = name THEN [inputs[n][i] EXCEPT !.value = value]
            ELSE inputs[n][i]]]

\* parameterInput.value = value, on the input found in the selected set
SetValue(inputs, selected, name, value) ==
    LET at == FindInput(inputs[selected], name)
    IN  [inputs EXCEPT ![selected] = [@ EXCEPT ![at] = [@ EXCEPT !.value = value]]]

\* a handler without the check of the input found
ParameterNotFound_NoCheck(inputs, selected, name) == selected \notin DOMAIN inputs

\* whether onParameterValueChanged(name, ...) throws: find on undefined is a
\* TypeError, and the input not found is the Error of the handler
ParameterNotFound(inputs, selected, name) ==
    \/ selected \notin DOMAIN inputs
    \/ FindInput(inputs[selected], name) = 0

\* a handler that goes back to the state of the constructor when it throws
onParameterValueChanged_ResetsOnError(name, value) ==
    /\ lastOp' = [op |-> "onParameterValueChanged", name |-> name, value |-> value]
    /\ viewCalls' = <<>>
    /\ IF ParameterNotFound(parameterSetInputs, selectedParameterSet, name)
       THEN /\ thrown' = TRUE
            /\ posted' = <<>>
            /\ command' = Null
            /\ selectedParameterSet' = ""
            /\ parameterSetInputs' = EmptyRecord
            /\ loadedFrom' = Null
            /\ leftSet' = Null
       ELSE /\ thrown' = FALSE
            /\ parameterSetInputs' =
                   SetValue(parameterSetInputs, selectedParameterSet, name, value)
            /\ posted' = <<SetStateMessage(command, parameterSetInputs',
                                           selectedParameterSet)>>
            /\ UNCHANGED <<command, selectedParameterSet, loadedFrom, leftSet>>

onParameterValueChanged(name, value) ==
    /\ lastOp' = [op |-> "onParameterValueChanged", name |-> name, value |-> value]
    /\ viewCalls' = <<>>
    /\ UNCHANGED <<command, selectedParameterSet, loadedFrom, leftSet>>
    /\ IF ParameterNotFound(parameterSetInputs, selectedParameterSet, name)
       THEN /\ thrown' = TRUE
            /\ posted' = <<>>
            /\ UNCHANGED parameterSetInputs
       ELSE /\ thrown' = FALSE
            /\ parameterSetInputs' =
                   SetValue(parameterSetInputs, selectedParameterSet, name, value)
            /\ posted' = <<SetStateMessage(command, parameterSetInputs',
                                           selectedParameterSet)>>

\* a handler that posts the name of the command for that of its module
onImportModule_PostsName ==
    /\ lastOp' = [op |-> "onImportModule"]
    /\ viewCalls' = <<>>
    /\ thrown' = (command = Null)
    /\ posted' = IF command = Null THEN <<>>
                 ELSE <<[type |-> "import", payload |-> [moduleName |-> command.name]]>>
    /\ UNCHANGED <<command, selectedParameterSet, parameterSetInputs,
                   loadedFrom, leftSet>>

onImportModule ==
    /\ lastOp' = [op |-> "onImportModule"]
    /\ viewCalls' = <<>>
    /\ thrown' = (command = Null)
    /\ posted' = IF command = Null THEN <<>>
                 ELSE <<[type |-> "import", payload |-> [moduleName |-> command.moduleName]]>>
    /\ UNCHANGED <<command, selectedParameterSet, parameterSetInputs,
                   loadedFrom, leftSet>>

SubmitParameters(list) ==
    SeqMap(LAMBDA p : <<p.name, p.value>>, SeqFilter(IsSet, list))

\* a handler that reads the command and the inputs with optional chaining
onSubmit_Optional(action) ==
    /\ lastOp' = [op |-> "onSubmit", action |-> action]
    /\ viewCalls' = <<>>
    /\ thrown' = FALSE
    /\ posted' = <<[type |-> "submit",
                    payload |-> [action |-> action,
                                 commandName |-> IF command = Null THEN "" ELSE command.name,
                                 parameters |->
                                    IF selectedParameterSet \in DOMAIN parameterSetInputs
                                    THEN SubmitParameters(parameterSetInputs[selectedParameterSet])
                                    ELSE <<>>]]>>
    /\ UNCHANGED <<command, selectedParameterSet, parameterSetInputs,
                   loadedFrom, leftSet>>

\* this.command === null throws, and so does filter on undefined
onSubmit(action) ==
    LET fails == command = Null \/ selectedParameterSet \notin DOMAIN parameterSetInputs
    IN  /\ lastOp' = [op |-> "onSubmit", action |-> action]
        /\ viewCalls' = <<>>
        /\ thrown' = fails
        /\ posted' = IF fails THEN <<>>
                     ELSE <<[type |-> "submit",
                             payload |-> [action |-> action,
                                          commandName |-> command.name,
                                          parameters |-> SubmitParameters(
                                              parameterSetInputs[selectedParameterSet])]]>>
        /\ UNCHANGED <<command, selectedParameterSet, parameterSetInputs,
                       loadedFrom, leftSet>>

----------------------------------------------------------------------------
(* The calls the webview script and the provider make *)

\* the state of a "setState" message the last handler posted, and the state of
\* no command
RestorableStates ==
    {posted[i].payload.newState : i \in {j \in DOMAIN posted : posted[j].type = "setState"}}
        \cup {StateOf(Null, EmptyRecord, "")}

\* the options of the dropdown setCommandElements fills, and the name of no set
SelectableNames ==
    (IF command = Null THEN {} ELSE Range(SetNames(command))) \cup {"None"}

\* the names of the inputs of the loaded command, of whichever set, and the
\* name of no input
EditableNames ==
    UNION {{parameterSetInputs[n][i].name : i \in DOMAIN parameterSetInputs[n]} :
             n \in DOMAIN parameterSetInputs}
        \cup {"Missing"}

\* input.type === "checkbox" ? input.checked : input.value
InputValues(name) ==
    IF \E p \in Range(ParamPool) \cup Range(TypePool) :
          p.name = name /\ StartsWithSwitchParameter(p.parameterType)
    THEN BOOLEAN
    ELSE IF name \in ParamNames THEN {"", "foo.txt"} ELSE {"foo.txt"}

SubmitActions == {"run", "insert", "copy"}

\* The view-model alone, any handler called at any time.
Next ==
    \/ constructor /\ UNCHANGED <<providerVars, partVars>>
    \/ \E state \in RestorableStates : onSetState(state) /\ UNCHANGED <<providerVars, partVars>>
    \/ \E c \in Commands : onCommandChanged(c) /\ UNCHANGED <<providerVars, partVars>>
    \/ \E selected \in SelectableNames :
          onSelectedParameterSetChanged(selected) /\ UNCHANGED <<providerVars, partVars>>
    \/ \E name \in EditableNames : \E value \in InputValues(name) :
          onParameterValueChanged(name, value) /\ UNCHANGED <<providerVars, partVars>>
    \/ onImportModule /\ UNCHANGED <<providerVars, partVars>>
    \/ \E action \in SubmitActions : onSubmit(action) /\ UNCHANGED <<providerVars, partVars>>

Spec == Init /\ [][Next]_vars

----------------------------------------------------------------------------
(* CommandInfoViewProvider *)

\* the largest number of messages in flight in one direction
MaxInFlight == 1

\* a Command of the command explorer: the command MkCommand(n, d, dflt, ...)
\* of one parameter in each set, with the keys PowerShell gives it
ExplorerCommand(n, d, dflt) ==
    LET c == MkCommand(n, d, dflt, "SampleModule", PoolLen, 1)
    IN  [Name |-> c.name,
         ModuleName |-> c.moduleName,
         Parameters |-> c.parameters,
         ParameterSets |-> c.parameterSets,
         defaultParameterSet |-> c.defaultParameterSet]

\* The commands selected in the command explorer: one of two sets, of a text
\* parameter and of a switch parameter, and one of no set whose
\* defaultParameterSet is not empty.
ExplorerCommands == {ExplorerCommand(2, 1, ""), ExplorerCommand(0, 0, "Path")}

\* this.selectedCommand = { name: command.Name, moduleName: command.ModuleName, ... }
ICommandOf(c) ==
    [name |-> c.Name,
     moduleName |-> c.ModuleName,
     parameters |-> c.Parameters,
     parameterSets |-> c.ParameterSets,
     defaultParameterSet |-> c.defaultParameterSet]

CommandChangedMessage(c) == [type |-> "commandChanged", payload |-> [command |-> c]]

\* await this.view?.webview.postMessage(message)
postMessage(message) == toView' = Append(toView, message)

\* a setCommand that posts the command and does not record it
setCommand_NotRecorded(c) ==
    /\ Len(toView) < MaxInFlight
    /\ postMessage(CommandChangedMessage(ICommandOf(c)))
    /\ UNCHANGED <<webviewState, selectedCommand, pc, toHost, hostDid, visible,
                   activeTextEditor>>
    /\ UNCHANGED viewModelVars

\* CommandInfoViewProvider.setCommand
setCommand(c) ==
    /\ Len(toView) < MaxInFlight
    /\ selectedCommand' = ICommandOf(c)
    /\ postMessage(CommandChangedMessage(selectedCommand'))
    /\ UNCHANGED <<webviewState, pc, toHost, hostDid, visible, activeTextEditor>>
    /\ UNCHANGED viewModelVars

\* onViewChangedVisibility when view.visible has become isVisible, up to its
\* first await: not visible, it returns; visible and with a webviewState, the
\* "setState" message is posted and the handler waits; with none, it goes on to
\* the "commandChanged" message at once.  One call of the handler waits at a time.
onViewChangedVisibility(isVisible) ==
    /\ visible' = isVisible
    /\ IF ~isVisible
       THEN UNCHANGED <<pc, toView>>
       ELSE /\ pc = "idle"
            /\ Len(toView) < MaxInFlight
            /\ IF webviewState # Null
               THEN /\ postMessage([type |-> "setState",
                                    payload |-> [newState |-> webviewState]])
                    /\ pc' = "setStatePosted"
               ELSE IF selectedCommand # Undefined
               THEN /\ postMessage(CommandChangedMessage(selectedCommand))
                    /\ UNCHANGED pc
               ELSE UNCHANGED <<pc, toView>>
    /\ UNCHANGED <<webviewState, selectedCommand, toHost, hostDid, activeTextEditor>>
    /\ UNCHANGED viewModelVars

\* a handler that returns after the "setState" message
onViewChangedVisibilityResumes_PostsNothing ==
    /\ pc = "setStatePosted"
    /\ pc' = "idle"
    /\ UNCHANGED <<webviewState, selectedCommand, toView, toHost, hostDid, visible,
                   activeTextEditor>>
    /\ UNCHANGED viewModelVars

\* onViewChangedVisibility after the await of the "setState" message
onViewChangedVisibilityResumes ==
    /\ pc = "setStatePosted"
    /\ Len(toView) < MaxInFlight
    /\ pc' = "idle"
    /\ IF selectedCommand # Undefined
       THEN postMessage(CommandChangedMessage(selectedCommand))
       ELSE UNCHANGED toView
    /\ UNCHANGED <<webviewState, selectedCommand, toHost, hostDid, visible, activeTextEditor>>
    /\ UNCHANGED viewModelVars

\* const { action, expression } = payload, on a payload that may lack the key
ExpressionOf(payload) ==
    IF "expression" \in DOMAIN payload THEN payload.expression ELSE Undefined

\* a switch whose cases do not return
onSubmitMessage_FallsThrough(payload, editor) ==
    LET expression == ExpressionOf(payload)
        run == <<[action |-> "run", expression |-> expression]>>
        insert == IF editor # Undefined
                  THEN <<[action |-> "insert", expression |-> expression]>> ELSE <<>>
        copy == <<[action |-> "copy", expression |-> expression],
                  [action |-> "showInformationMessage",
                   message |-> "Command copied to clipboard."]>>
    IN  IF payload.action = "run" THEN run \o insert \o copy
        ELSE IF payload.action = "insert" THEN insert \o copy
        ELSE IF payload.action = "copy" THEN copy
        ELSE <<>>

\* What onSubmitMessage does: the evaluate request of "run", the edit of
\* "insert" when there is an active editor, the clipboard write of "copy" and
\* its information message; each with the expression it is given.  A string is
\* the record of its tokens.
onSubmitMessage(payload, editor) ==
    LET expression == ExpressionOf(payload)
    IN  IF payload.action = "run"
        THEN <<[action |-> "run", expression |-> expression]>>
        ELSE IF payload.action = "insert"
        THEN (IF editor # Undefined
              THEN <<[action |-> "insert", expression |-> expression]>> ELSE <<>>)
        ELSE IF payload.action = "copy"
        THEN <<[action |-> "copy", expression |-> expression],
               [action |-> "showInformationMessage",
                message |-> "Command copied to clipboard."]>>
        ELSE <<>>

\* What onImportMessage does: the evaluate request of Import-Module "<module>",
\* then the refresh of the command explorer
onImportMessage(module) ==
    <<[action |-> "run", expression |-> [tokens |-> <<"Import-Module", module>>]],
      [action |-> "commandExplorerRefresh"]>>

\* a handler that keeps the first state it was sent
HandleMessage_FirstWins(message) ==
    IF message.type = "submit"
    THEN /\ hostDid' = onSubmitMessage(message.payload, activeTextEditor)
         /\ UNCHANGED webviewState
    ELSE IF message.type = "import"
    THEN /\ hostDid' = onImportMessage(message.payload.moduleName)
         /\ UNCHANGED webviewState
    ELSE IF message.type = "setState"
    THEN /\ webviewState' = IF webviewState = Null THEN message.payload.newState
                            ELSE webviewState
         /\ hostDid' = <<>>
    ELSE /\ hostDid' = <<>>
         /\ UNCHANGED webviewState

\* a handler that takes a message of another type for a "setState" message
HandleMessage_DefaultSetState(message) ==
    IF message.type = "submit"
    THEN /\ hostDid' = onSubmitMessage(message.payload, activeTextEditor)
         /\ UNCHANGED webviewState
    ELSE IF message.type = "import"
    THEN /\ hostDid' = onImportMessage(message.payload.moduleName)
         /\ UNCHANGED webviewState
    ELSE /\ webviewState' = IF "newState" \in DOMAIN message.payload
                            THEN message.payload.newState ELSE Null
         /\ hostDid' = <<>>

\* CommandInfoViewProvider.onMessage, with onSetStateMessage: what it does to
\* webviewState, and the effects of the handling
HandleMessage(message) ==
    IF message.type = "submit"
    THEN /\ hostDid' = onSubmitMessage(message.payload, activeTextEditor)
         /\ UNCHANGED webviewState
    ELSE IF message.type = "import"
    THEN /\ hostDid' = onImportMessage(message.payload.moduleName)
         /\ UNCHANGED webviewState
    ELSE IF message.type = "setState"
    THEN /\ webviewState' = message.payload.newState
         /\ hostDid' = <<>>
    ELSE /\ hostDid' = <<>>
         /\ UNCHANGED webviewState

\* webviewView.webview.onDidReceiveMessage(m => this.onMessage(m)), on the next
\* message of the view-model
providerOnMessage ==
    /\ toHost # <<>>
    /\ toHost' = Tail(toHost)
    /\ HandleMessage(Head(toHost))
    /\ UNCHANGED <<selectedCommand, pc, toView, visible, activeTextEditor>>
    /\ UNCHANGED viewModelVars

----------------------------------------------------------------------------
(* The provider, the webview script and the view-model together *)

\* CommandInfoViewModel.onMessage
viewModelOnMessage(data) ==
    IF data.type = "commandChanged" THEN onCommandChanged(data.payload.command)
    ELSE IF data.type = "setState" THEN onSetState(data.payload.newState)
    ELSE /\ lastOp' = [op |-> "onMessage", data |-> data]
         /\ viewCalls' = <<>>
         /\ posted' = <<>>
         /\ thrown' = FALSE
         /\ UNCHANGED <<command, selectedParameterSet, parameterSetInputs,
                        loadedFrom, leftSet>>

\* window.addEventListener("message", (m) => { viewModel.onMessage(m.data); })
onMessage ==
    /\ toView # <<>>
    /\ toView' = Tail(toView)
    /\ viewModelOnMessage(Head(toView))
    /\ UNCHANGED <<webviewState, selectedCommand, pc, toHost, hostDid,
                   visible, activeTextEditor>>

\* vscodeApi.postMessage of what the handler posted
Posts ==
    /\ toHost' = toHost \o posted'
    /\ Len(toHost') <= MaxInFlight
    /\ UNCHANGED <<webviewState, selectedCommand, pc, toView, hostDid,
                   visible, activeTextEditor>>

\* the options of the dropdown
DropdownNames == IF command = Null THEN {} ELSE Range(SetNames(command))

\* the names of the input elements of the form: those of the selected set
FormInputNames ==
    IF selectedParameterSet \in DOMAIN parameterSetInputs
    THEN {parameterSetInputs[selectedParameterSet][i].name :
            i \in DOMAIN parameterSetInputs[selectedParameterSet]}
    ELSE {}

\* the webview is loaded again and its script builds a new view-model
webviewLoaded == constructor /\ UNCHANGED providerVars

\* The option the dropdown shows: setCommandElements selects the option that is
\* arg.selectedParameterSet, and a dropdown none of whose options is selected
\* shows the first one.
DisplayedOption ==
    IF command = Null THEN ""
    ELSE IF selectedParameterSet \in Range(SetNames(command)) THEN selectedParameterSet
    ELSE SetNames(command)[1]

\* "change" of the dropdown: the user has picked an option it did not show
selectParameterSetChange ==
    \E selected \in DropdownNames \ {DisplayedOption} :
        onSelectedParameterSetChanged(selected) /\ Posts

commandFormChange ==
    \E name \in FormInputNames : \E value \in InputValues(name) :
        onParameterValueChanged(name, value) /\ Posts

\* the form is hidden until setCommandElements shows it
commandFormSubmit ==
    /\ command # Null
    /\ \E action \in SubmitActions : onSubmit(action) /\ Posts

\* The view is hidden and shown again at once: the call of
\* onViewChangedVisibility for the hiding returns, the one for the showing posts.
HostNext ==
    \/ \E c \in ExplorerCommands : setCommand(c) /\ UNCHANGED <<callVars, partVars>>
    \/ onViewChangedVisibility(TRUE) /\ UNCHANGED <<callVars, partVars>>
    \/ onViewChangedVisibilityResumes /\ UNCHANGED <<callVars, partVars>>
    \/ providerOnMessage /\ UNCHANGED <<callVars, partVars>>
    \/ onMessage /\ UNCHANGED <<callVars, partVars>>
    \/ webviewLoaded /\ UNCHANGED partVars
    \/ selectParameterSetChange /\ UNCHANGED <<callVars, partVars>>
    \/ commandFormChange /\ UNCHANGED <<callVars, partVars>>
    \/ commandFormSubmit /\ UNCHANGED <<callVars, partVars>>

HostSpec == Init /\ [][HostNext]_vars

----------------------------------------------------------------------------
(* The provider alone, called as its tests call it *)

\* the command of two sets, as the provider sends it
SampleCommand == ICommandOf(ExplorerCommand(2, 1, ""))

\* The states a webview may send: the state of no command, and the state of the
\* loaded sample command with its first and with its second set selected.
PersistedStates ==
    {StateOf(Null, EmptyRecord, ""),
     Loads[SampleCommand],
     [Loads[SampleCommand] EXCEPT !.selectedParameterSet = "LiteralPath"]}

\* "Invoke-Example -Switch -Foo $Bar"
SampleExpression == [tokens |-> <<"Invoke-Example", "-Switch", "-Foo", "$Bar">>]

\* the messages of a type the provider does not handle
UnaddressedToProvider ==
    {CommandChangedMessage(SampleCommand), [type |-> "refresh", payload |-> EmptyRecord]}

\* the messages of a type the view-model does not handle
UnaddressedToViewModel ==
    {[type |-> "submit", payload |-> [action |-> "run", expression |-> SampleExpression]],
     [type |-> "import", payload |-> [moduleName |-> "SampleModule"]],
     [type |-> "refresh", payload |-> EmptyRecord]}

ProviderMessages ==
    {[type |-> "setState", payload |-> [newState |-> state]] : state \in PersistedStates}
        \cup {[type |-> "submit", payload |-> [action |-> action,
                                                expression |-> SampleExpression]] :
                 action \in SubmitActions}
        \cup {[type |-> "import", payload |-> [moduleName |-> "SampleModule"]]}
        \cup UnaddressedToProvider

\* provider.onMessage(message)
providerReceives(message) ==
    /\ HandleMessage(message)
    /\ providerOp' = [op |-> "onMessage", message |-> message]
    /\ commandSetSince' = (message.type # "setState" /\ commandSetSince)
    /\ UNCHANGED <<selectedCommand, pc, toView, toHost, visible, activeTextEditor>>
    /\ UNCHANGED viewModelVars

\* a text editor is opened, or the one there is is closed
activeTextEditorChanged ==
    /\ activeTextEditor' = IF activeTextEditor = Undefined THEN TextEditor ELSE Undefined
    /\ providerOp' = [op |-> "onDidChangeActiveTextEditor"]
    /\ UNCHANGED <<webviewState, selectedCommand, pc, toView, toHost, hostDid,
                   visible, commandSetSince>>
    /\ UNCHANGED viewModelVars

\* the webview receives the next message of the provider, or is given a message
\* of a type its view-model does not handle
webviewReceives ==
    /\ \/ onMessage
       \/ \E data \in UnaddressedToViewModel :
             /\ viewModelOnMessage(data)
             /\ UNCHANGED <<webviewState, selectedCommand, pc, toView, toHost, hostDid,
                            visible, activeTextEditor>>
    /\ providerOp' = [op |-> "postMessage"]
    /\ UNCHANGED commandSetSince

ProviderNext ==
    \/ \E c \in ExplorerCommands :
          /\ setCommand(c)
          /\ providerOp' = [op |-> "setCommand", command |-> c]
          /\ commandSetSince' = TRUE
          /\ UNCHANGED partVars
    \/ /\ onViewChangedVisibility(~visible)
       /\ providerOp' = [op |-> "onViewChangedVisibility"]
       /\ UNCHANGED <<commandSetSince, partVars>>
    \/ /\ onViewChangedVisibilityResumes
       /\ providerOp' = [op |-> "onViewChangedVisibilityResumes"]
       /\ UNCHANGED <<commandSetSince, partVars>>
    \/ \E message \in ProviderMessages : providerReceives(message) /\ UNCHANGED partVars
    \/ activeTextEditorChanged /\ UNCHANGED partVars
    \/ webviewReceives /\ UNCHANGED partVars

ProviderSpec == Init /\ [][ProviderNext]_vars

----------------------------------------------------------------------------
(* compareParameterInputObjects on its own, as its test calls it *)

\* the largest number of fields of the array that is sorted
MaxFields == 3

\* the largest position of a field
MaxPosition == 1

\* names that differ, and names that differ by their case only
SortableNames == {"Path", "verbose", "Verbose"}

\* A CommandInfoParameterInput of any name, any `common` and any position;
\* the comparer reads nothing else of it.
SortableInput(name, common, position) ==
    [name |-> name,
     required |-> FALSE,
     common |-> common,
     tooltip |-> << <<"Type: ", "System.String">>, <<"Optional">> >>,
     position |-> position,
     inputType |-> "text",
     value |-> ""]

SortableInputs ==
    {SortableInput(name, common, position) :
        name \in SortableNames, common \in BOOLEAN,
        position \in {NullPosition} \cup 0..MaxPosition}

\* the array with its i-th and (i+1)-th elements exchanged
Exchanged(list, i) ==
    [k \in DOMAIN list |->
        IF k = i THEN list[i + 1] ELSE IF k = i + 1 THEN list[i] ELSE list[k]]

\* list.sort(compareParameterInputObjects)
sortFields(list) ==
    /\ declared' = list
    /\ sorted' = SortInputs(list)

\* The array that is sorted has one field more than the last one, or is the
\* last one with two neighbours exchanged.
SortNext ==
    \/ \E input \in SortableInputs :
          /\ Len(declared) < MaxFields
          /\ sortFields(Append(declared, input))
          /\ UNCHANGED <<viewModelVars, providerVars, explorerVars, webviewVars>>
    \/ \E i \in 1..(Len(declared) - 1) :
          /\ sortFields(Exchanged(declared, i))
          /\ UNCHANGED <<viewModelVars, providerVars, explorerVars, webviewVars>>

SortSpec == Init /\ [][SortNext]_vars

----------------------------------------------------------------------------
(* GetCommandsFeature.CommandExplorerRefresh *)

\* the largest number of commands of an answer of the server
MaxResult == 3

\* String.prototype.toLowerCase, on the module names and the filters of the model
toLowerCase(str) ==
    IF str \in {"SampleModule", "SAMPLEMODULE", "samplemodule"} THEN "samplemodule"
    ELSE IF str \in {"OtherModule", "othermodule"} THEN "othermodule"
    ELSE str

\* the commands the server knows: two names, each in two modules
ServerCommands ==
    {[name |-> name, moduleName |-> module, defaultParameterSet |-> "",
      parameterSets |-> <<>>, parameters |-> {}] :
        name \in {"Get-Item", "Get-Job"}, module \in {"SampleModule", "OtherModule"}}

\* The answers to powerShell/getCommand: the server lists the commands by name.
ServerResults ==
    UNION {{arr \in [1..n -> ServerCommands] :
               \A i \in 1..(n - 1) : arr[i].name = "Get-Item" \/ arr[i + 1].name = "Get-Job"} :
             n \in 0..MaxResult}

\* the values of the setting sideBar.CommandExplorerExcludeFilter
ExcludeFilters ==
    {<<>>, <<"samplemodule">>, <<"SAMPLEMODULE">>, <<"OtherModule">>,
     <<"SampleModule", "OtherModule">>}

toCommand(c) ==
    [Name |-> c.name,
     ModuleName |-> c.moduleName,
     defaultParameterSet |-> c.defaultParameterSet,
     ParameterSets |-> c.parameterSets,
     Parameters |-> c.parameters]

\* result.filter((command, i, arr) =>
\*     (!excludeFilter.includes(command.moduleName.toLowerCase())) &&
\*     (command.name !== arr[i-1]?.name))
FilteredResult(arr, excludeFilter) ==
    LET kept == SelectSeq([i \in DOMAIN arr |-> i],
                          LAMBDA i : /\ toLowerCase(arr[i].moduleName) \notin Range(excludeFilter)
                                     /\ (i = 1 \/ arr[i].name # arr[i - 1].name))
    IN  [k \in DOMAIN kept |-> arr[kept[k]]]

\* CommandExplorerRefresh, the server answering with `answer`.  No command is
\* selected in the tree view, so the listener of onDidChangeTreeData that
\* refresh() fires calls nothing.
CommandExplorerRefresh(answer) ==
    LET excludeFilter == SeqMap(toLowerCase, exclusions)
    IN  /\ result' = answer
        /\ powerShellCommands' = SeqMap(toCommand, FilteredResult(answer, excludeFilter))
        /\ UNCHANGED exclusions

\* the user changes the setting
excludeFilterChanged(filter) ==
    /\ filter # exclusions
    /\ exclusions' = filter
    /\ UNCHANGED <<result, powerShellCommands>>

ExplorerNext ==
    \/ \E answer \in ServerResults :
          /\ CommandExplorerRefresh(answer)
          /\ UNCHANGED <<viewModelVars, providerVars, sortVars, webviewVars>>
    \/ \E filter \in ExcludeFilters :
          /\ excludeFilterChanged(filter)
          /\ UNCHANGED <<viewModelVars, providerVars, sortVars, webviewVars>>

ExplorerSpec == Init /\ [][ExplorerNext]_vars

----------------------------------------------------------------------------
(* The DOM webview, commandInfoWebview.ts *)

\* what the user types into a text field
TypedValues == {"", "*.txt"}

\* which parameter sets are default ones: every choice, for every number of sets
DefaultChoices == UNION {[1..n -> BOOLEAN] : n \in 0..MaxSets}

WebviewCommand(defaults, module, len) ==
    LET c == MkCommand(Len(defaults), 0, "", module, PoolLen, len)
    IN  [c EXCEPT !.parameterSets =
            [k \in DOMAIN defaults |-> [c.parameterSets[k] EXCEPT !.isDefault = defaults[k]]]]

\* Commands of a module and of none, with no parameter in a set, with one (Path
\* in the first set, the common Verbose in the second) and with two (Path and
\* Verbose, Verbose and WhatIf).
WebviewCommands ==
    {WebviewCommand(defaults, module, len) :
        defaults \in DefaultChoices, module \in {"", "SampleModule"}, len \in 0..2}

\* Default parameter set to use if a command contains no parameter sets
fallbackParameterSet ==
    [name |-> FallbackSetName, isDefault |-> FALSE, parameters |-> <<>>]

\* new Option(text, value, defaultSelected, selected)
Option(text, value, defaultSelected, selected) ==
    [text |-> text, value |-> value, defaultSelected |-> defaultSelected,
     selected |-> selected]

\* the <div> of a parameter: its tooltip, its <label> and its <input>
ParameterDiv(parameterSet, parameter) ==
    LET tooltipLines ==
            << <<"Type: ", parameter.parameterType[1]>> >>
            \o (IF parameter.position >= 0
                THEN << <<"Position: ", ToString(parameter.position)>> >> ELSE <<>>)
            \o (IF parameter.isMandatory THEN << <<"Mandatory">> >> ELSE << <<"Optional">> >>)
            \o (IF parameter.valueFromPipeline
                THEN << <<"Can receive value from pipeline">> >> ELSE <<>>)
    IN  [className |-> "parameterInputGroup",
         title |-> tooltipLines,
         label |-> <<parameter.name>> \o (IF parameter.isMandatory THEN <<"*">> ELSE <<>>),
         input |-> [name |-> parameter.name,
                    type |-> IF StartsWithSwitchParameter(parameter.parameterType)
                             THEN "checkbox" ELSE "text",
                    id |-> <<"(", parameterSet.name, ")", parameter.name>>,
                    value |-> ""]]

\* The <form> of a parameter set as one pass of the loop of loadCommand leaves
\* it: the parameters that are not common, the common ones in a <details>,
\* a message when the form has no child then, and the action buttons.
ParameterSetForm(cmd, parameterSet, isDefault) ==
    LET divs == SeqMap(LAMBDA parameter : ParameterDiv(parameterSet, parameter),
                       parameterSet.parameters)
        own == SelectSeq(divs, LAMBDA div : div.input.name \notin commonParameterNames)
        common == SelectSeq(divs, LAMBDA div : div.input.name \in commonParameterNames)
        childElementCount == Len(own) + (IF Len(common) > 0 THEN 1 ELSE 0)
    IN  [name |-> parameterSet.name,
         hidden |-> ~isDefault,
         parameters |-> own,
         commonParameters |-> common,
         message |-> IF childElementCount > 0 THEN <<>>
                     ELSE IF cmd.moduleName = "" THEN <<"There are no parameters.">>
                     ELSE <<"There are no parameters. You may need to import the ",
                            cmd.moduleName, " module for the parameters to appear.">>,
         importBtn |-> IF childElementCount = 0 /\ cmd.moduleName # ""
                       THEN <<[textContent |-> <<"Import ", cmd.moduleName>>, disabled |-> FALSE]>>
                       ELSE <<>>,
         actions |-> <<"run", "insert", "copy">>]

\* `forms` after the first k passes of the loop over command.parameterSets:
\* each pass pushes the form of its set and then shows forms[0] if no form of
\* those pushed so far is shown.
RECURSIVE FormsAfter(_, _)
FormsAfter(cmd, k) ==
    IF k = 0 THEN <<>>
    ELSE LET parameterSet == cmd.parameterSets[k]
             isDefault == parameterSet.isDefault \/ Len(cmd.parameterSets) = 1
             forms == Append(FormsAfter(cmd, k - 1), ParameterSetForm(cmd, parameterSet, isDefault))
         IN  IF Len(forms) > 0 /\ ~(\E i \in DOMAIN forms : ~forms[i].hidden)
             THEN [forms EXCEPT ![1].hidden = FALSE]
             ELSE forms

\* `options` after the loop
OptionsOf(cmd) ==
    SeqMap(LAMBDA parameterSet :
               LET isDefault == parameterSet.isDefault \/ Len(cmd.parameterSets) = 1
               IN  Option(parameterSet.name, parameterSet.name, isDefault, isDefault),
           cmd.parameterSets)

\* The option a dropdown shows once the options were made its children: the
\* last one that was created selected, the first one when none was.
SelectedIndexOf(options) ==
    IF \E k \in DOMAIN options : options[k].selected
    THEN CHOOSE k \in DOMAIN options :
            /\ options[k].selected
            /\ \A j \in DOMAIN options : options[j].selected => j <= k
    ELSE IF Len(options) > 0 THEN 1 ELSE 0

loadCommand(given) ==
    LET cmd == IF Len(given.parameterSets) = 0
               THEN [given EXCEPT !.parameterSets = <<fallbackParameterSet>>]
               ELSE given
        options == OptionsOf(cmd)
        forms == FormsAfter(cmd, Len(cmd.parameterSets))
    IN  /\ welcomeMessage' = [hidden |-> TRUE]
        /\ commandName' = cmd.name
        /\ elementCommandName' = cmd.name
        /\ elementCommandModule' = cmd.moduleName
        /\ selectParameterSet' =
              [options |-> [k \in DOMAIN options |->
                              [text |-> options[k].text, value |-> options[k].value,
                               defaultSelected |-> options[k].defaultSelected]],
               selectedIndex |-> SelectedIndexOf(options),
               hidden |-> Len(options) <= 1]
        /\ divParameterForms' = forms

\* window.onmessage: of the messages of the provider, "commandChanged" alone
\* is handled.
window_onmessage(data) ==
    /\ data.type = "commandChanged"
    /\ loadCommand(data.command)
    /\ webviewEvent' = "message"

\* The user picks the k-th option of the dropdown, another one than the one
\* shown, and the dropdown fires the change event: onParameterSetSelectionChanged.
onParameterSetSelectionChanged(k) ==
    /\ ~selectParameterSet.hidden
    /\ k \in DOMAIN selectParameterSet.options
    /\ k # selectParameterSet.selectedIndex
    /\ selectParameterSet' = [selectParameterSet EXCEPT !.selectedIndex = k]
    /\ LET parameterSet == selectParameterSet.options[k].value
       IN  divParameterForms' =
              [i \in DOMAIN divParameterForms |->
                  [divParameterForms[i] EXCEPT !.hidden = (divParameterForms[i].name # parameterSet)]]
    /\ webviewEvent' = "change"
    /\ UNCHANGED <<welcomeMessage, commandName, elementCommandName, elementCommandModule>>

\* The user types into the j-th text field of the i-th form, which is shown.
inputTyped(i, j, value) ==
    /\ i \in DOMAIN divParameterForms
    /\ ~divParameterForms[i].hidden
    /\ j \in DOMAIN divParameterForms[i].parameters
    /\ divParameterForms[i].parameters[j].input.type = "text"
    /\ value # divParameterForms[i].parameters[j].input.value
    /\ divParameterForms' = [divParameterForms EXCEPT ![i].parameters[j].input.value = value]
    /\ webviewEvent' = "input"
    /\ UNCHANGED <<welcomeMessage, commandName, elementCommandName, elementCommandModule,
                   selectParameterSet>>

WebviewNext ==
    \/ \E cmd \in WebviewCommands :
          /\ window_onmessage([type |-> "commandChanged", command |-> cmd])
          /\ UNCHANGED <<viewModelVars, providerVars, sortVars, explorerVars>>
    \/ \E k \in 1..(MaxSets + 1) :
          /\ onParameterSetSelectionChanged(k)
          /\ UNCHANGED <<viewModelVars, providerVars, sortVars, explorerVars>>
    \/ \E i \in 1..(MaxSets + 1), j \in 1..2, value \in TypedValues :
          /\ inputTyped(i, j, value)
          /\ UNCHANGED <<viewModelVars, providerVars, sortVars, explorerVars>>

WebviewSpec == Init /\ [][WebviewNext]_vars

----------------------------------------------------------------------------
(* Steps, as the handler that took them *)

\* a step of onCommandChanged that does not skip: its command is not the loaded one
LoadStep == lastOp'.op = "onCommandChanged" /\ lastOp'.command # command

SelectStep == lastOp'.op = "onSelectedParameterSetChanged"

EditStep == lastOp'.op = "onParameterValueChanged"

SubmitStep == lastOp'.op = "onSubmit"

FieldNames(list) == SeqMap(LAMBDA p : p.name, list)

HasDefaultValue(parameterInput) ==
    IF parameterInput.inputType = "checkbox" THEN parameterInput.value = FALSE
    ELSE parameterInput.value = ""

----------------------------------------------------------------------------
(* C1 *)

\* C1: in every reachable state of the view-model, from construction on,
\* selectedParameterSet is a key of parameterSetInputs.
C1_SelectedIsKey == selectedParameterSet \in DOMAIN parameterSetInputs

----------------------------------------------------------------------------
(* C2 *)

\* the selection the claim gives: defaultParameterSet if it is non-empty and the
\* name of a set, else the first default set, else the first set
ClaimedSelection(c) ==
    IF c.defaultParameterSet # "" /\ c.defaultParameterSet \in Range(SetNames(c))
    THEN c.defaultParameterSet
    ELSE IF \E k \in DOMAIN c.parameterSets : c.parameterSets[k].isDefault
    THEN c.parameterSets[CHOOSE k \in DOMAIN c.parameterSets :
                            /\ c.parameterSets[k].isDefault
                            /\ \A j \in 1..(k - 1) : ~c.parameterSets[j].isDefault].name
    ELSE c.parameterSets[1].name

\* C2: after onCommandChanged loads a command with at least one parameter set,
\* selectedParameterSet is the command's defaultParameterSet if that is non-empty
\* and names one of its sets, else the name of the first set with isDefault,
\* else the name of the first set.
C2_InitialSelection ==
    [][(LoadStep /\ Len(lastOp'.command.parameterSets) >= 1)
         => selectedParameterSet' = ClaimedSelection(lastOp'.command)]_vars

----------------------------------------------------------------------------
(* C3 *)

\* C3: after onCommandChanged loads a command, the keys of parameterSetInputs are
\* the names of the command's parameter sets; for a command of no parameter set
\* the one key is "__AllParameterSets", it maps to the empty sequence, and it is
\* the selected set.
C3_KeysAreSetNames ==
    [][LoadStep =>
         IF Len(lastOp'.command.parameterSets) = 0
         THEN /\ DOMAIN parameterSetInputs' = {"__AllParameterSets"}
              /\ parameterSetInputs'["__AllParameterSets"] = <<>>
              /\ selectedParameterSet' = "__AllParameterSets"
         ELSE DOMAIN parameterSetInputs' = Range(SetNames(lastOp'.command))]_vars

----------------------------------------------------------------------------
(* C4 *)

\* a before b in the order of the claim
InClaimedOrder(a, b) ==
    IF a.common # b.common THEN ~a.common
    ELSE IF a.position # NullPosition /\ b.position # NullPosition
    THEN a.position <= b.position
    ELSE IF a.position # NullPosition THEN TRUE
    ELSE IF b.position # NullPosition THEN FALSE
    ELSE LocaleIndex(a.name) <= LocaleIndex(b.name)

Ordered(list) ==
    \A i, j \in DOMAIN list : i < j => InClaimedOrder(list[i], list[j])

\* one field of list for each parameter, the one derived from it
OneFieldPerParameter(list, parameters) ==
    /\ Len(list) = Len(parameters)
    /\ \A i \in DOMAIN parameters :
          Cardinality({j \in DOMAIN list :
                          list[j] = createParameterInputObject(parameters[i])}) = 1

----------------------------------------------------------------------------
(* C5 *)

\* C5: onCommandChanged called again with a command deep-equal to the one passed
\* to the call that loaded the state changes none of command,
\* selectedParameterSet, parameterSetInputs, and calls no view function.
C5_LoadIsIdempotent ==
    [][(lastOp'.op = "onCommandChanged" /\ loadedFrom # Null
            /\ lastOp'.command = loadedFrom)
         => (UNCHANGED viewState /\ viewCalls' = <<>>)]_vars

----------------------------------------------------------------------------
(* C6 *)

\* C6: when onCommandChanged loads a command that is not deep-equal to the loaded
\* one, every field of every set has its default value: false for a checkbox, ""
\* for a text field.
C6_LoadResetsValues ==
    [][LoadStep =>
         \A n \in DOMAIN parameterSetInputs' :
            \A i \in DOMAIN parameterSetInputs'[n] :
               HasDefaultValue(parameterSetInputs'[n][i])]_vars

\* a load that replaced an input that had a value by an input of the same name
\* in a set of the same name
C6_Witness ==
    /\ lastOp.op = "onCommandChanged"
    /\ lastOp.replacedValues
    /\ \E n \in DOMAIN parameterSetInputs : Len(parameterSetInputs[n]) > 0

----------------------------------------------------------------------------
(* C7 *)

\* C7: onParameterValueChanged(name, value) changes the value of the field
\* called name of the selected set and nothing else: not the fields of the other
\* sets, not the other fields, no attribute but the value, not command, not
\* selectedParameterSet.
C7_EditFrame ==
    [][EditStep =>
         /\ command' = command
         /\ selectedParameterSet' = selectedParameterSet
         /\ DOMAIN parameterSetInputs' = DOMAIN parameterSetInputs
         /\ \A n \in DOMAIN parameterSetInputs :
               /\ Len(parameterSetInputs'[n]) = Len(parameterSetInputs[n])
               /\ \A i \in DOMAIN parameterSetInputs[n] :
                     LET old == parameterSetInputs[n][i]
                         new == parameterSetInputs'[n][i]
                     IN  IF n = selectedParameterSet /\ old.name = lastOp'.name
                         THEN /\ [new EXCEPT !.value = old.value] = old
                              /\ ~thrown' => new.value = lastOp'.value
                         ELSE new = old]_vars

\* an edit gave a value to Verbose in the selected set, Verbose of another set has none
C7_Witness ==
    /\ lastOp.op = "onParameterValueChanged"
    /\ lastOp.name = "Verbose"
    /\ ~thrown
    /\ selectedParameterSet \in DOMAIN parameterSetInputs
    /\ \E i \in DOMAIN parameterSetInputs[selectedParameterSet] :
          LET p == parameterSetInputs[selectedParameterSet][i]
          IN  p.name = "Verbose" /\ p.value = TRUE
    /\ \E n \in DOMAIN parameterSetInputs \ {selectedParameterSet} :
          \E i \in DOMAIN parameterSetInputs[n] :
             LET p == parameterSetInputs[n][i]
             IN  p.name = "Verbose" /\ p.value = FALSE

----------------------------------------------------------------------------
(* C8 *)

NoFieldCalled(name) ==
    \/ selectedParameterSet \notin DOMAIN parameterSetInputs
    \/ \A i \in DOMAIN parameterSetInputs[selectedParameterSet] :
          parameterSetInputs[selectedParameterSet][i].name # name

\* C8: onParameterValueChanged(name, value) throws when the selected set has no
\* field called name, also when another set has one; the state is then
\* unchanged and no message is posted.
C8_EditOfUnknownName ==
    [][(EditStep /\ NoFieldCalled(lastOp'.name))
         => (thrown' /\ UNCHANGED viewState /\ posted' = <<>>)]_vars

\* the edit of a name that only another set has
C8_Witness ==
    /\ lastOp.op = "onParameterValueChanged"
    /\ thrown
    /\ selectedParameterSet \in DOMAIN parameterSetInputs
    /\ NoFieldCalled(lastOp.name)
    /\ \E n \in DOMAIN parameterSetInputs :
          \E i \in DOMAIN parameterSetInputs[n] :
             parameterSetInputs[n][i].name = lastOp.name

----------------------------------------------------------------------------
(* C9 *)

\* C9: when the selection comes back to the set it last left, the fields of that
\* set have the values they had when it left, and setParameterInputs is called
\* with them.
C9_ValuesSurviveSwitch ==
    [][(SelectStep /\ lastOp'.returned)
         => /\ parameterSetInputs'[selectedParameterSet'] = leftSet.inputs
            /\ viewCalls' = <<[fn |-> "setParameterInputs", arg |-> leftSet.inputs]>>]_vars

\* back in the set Path, which has an edited value, from the set LiteralPath,
\* which has an edited value too
C9_Witness ==
    /\ lastOp.op = "onSelectedParameterSetChanged"
    /\ lastOp.returned
    /\ ~thrown
    /\ selectedParameterSet = "Path"
    /\ leftSet # Null
    /\ leftSet.name = "LiteralPath"
    /\ \E i \in DOMAIN leftSet.inputs : IsSet(leftSet.inputs[i])
    /\ \E i \in DOMAIN parameterSetInputs["Path"] : IsSet(parameterSetInputs["Path"][i])
    /\ \E i \in DOMAIN viewCalls[1].arg : IsSet(viewCalls[1].arg[i])

----------------------------------------------------------------------------
(* C10 *)

\* C10: onSelectedParameterSetChanged(name) with name the selected set calls no
\* view function, posts no message and changes no state.
C10_SelectSameIsNoOp ==
    [][(SelectStep /\ lastOp'.selected = selectedParameterSet)
         => (UNCHANGED viewState /\ viewCalls' = <<>> /\ posted' = <<>> /\ ~thrown')]_vars

\* the selected set of a loaded command was selected again
C10_Witness ==
    /\ lastOp.op = "onSelectedParameterSetChanged"
    /\ lastOp.selected = selectedParameterSet
    /\ command # Null
    /\ selectedParameterSet \in DOMAIN parameterSetInputs
    /\ viewCalls = <<>>
    /\ posted = <<>>

----------------------------------------------------------------------------
(* C11 *)

\* C11: onSelectedParameterSetChanged(name), name a key of parameterSetInputs
\* that is not the selected one, sets selectedParameterSet to name, changes
\* neither command nor parameterSetInputs, and calls the view once, with
\* setParameterInputs of the fields of name as they are stored.
C11_SelectKnownSet ==
    [][(/\ SelectStep
        /\ lastOp'.selected # selectedParameterSet
        /\ lastOp'.selected \in DOMAIN parameterSetInputs)
         => /\ selectedParameterSet' = lastOp'.selected
            /\ command' = command
            /\ parameterSetInputs' = parameterSetInputs
            /\ viewCalls' = <<[fn |-> "setParameterInputs",
                               arg |-> parameterSetInputs[lastOp'.selected]]>>]_vars

\* the selection has moved from a set with an edited field to another set with
\* an edited field
C11_Witness ==
    /\ lastOp.op = "onSelectedParameterSetChanged"
    /\ lastOp.selected = selectedParameterSet
    /\ selectedParameterSet \in DOMAIN parameterSetInputs
    /\ Len(viewCalls) = 1
    /\ "arg" \in DOMAIN viewCalls[1]
    /\ \E i \in DOMAIN viewCalls[1].arg : IsSet(viewCalls[1].arg[i])
    /\ leftSet # Null
    /\ leftSet.name # selectedParameterSet
    /\ \E i \in DOMAIN leftSet.inputs : IsSet(leftSet.inputs[i])
    /\ leftSet.inputs # parameterSetInputs[selectedParameterSet]

----------------------------------------------------------------------------
(* C12 *)

\* C12: every onSelectedParameterSetChanged that changes the selection and every
\* onParameterValueChanged that does not throw posts one message, a "setState"
\* whose payload is the state of the view-model after the change.
C12_PersistOnMutation ==
    [][((SelectStep /\ selectedParameterSet' # selectedParameterSet)
            \/ (EditStep /\ ~thrown'))
         => posted' = <<SetStateMessage(command', parameterSetInputs',
                                        selectedParameterSet')>>]_vars

----------------------------------------------------------------------------
(* C14 *)

\* C14: onSetState of a state whose command is null does not throw, and the
\* three fields of the view-model are those of the state.
C14_RestoreOfNoCommand ==
    [][(lastOp'.op = "onSetState" /\ lastOp'.state.command = Null)
         => /\ ~thrown'
            /\ command' = Null
            /\ parameterSetInputs' = lastOp'.state.parameterSetInputs
            /\ selectedParameterSet' = lastOp'.state.selectedParameterSet]_vars

----------------------------------------------------------------------------
(* C16 *)

\* the pairs the claim gives for a sequence of fields
ClaimedParameters(list) ==
    LET set == SelectSeq(list, LAMBDA p : (p.inputType = "checkbox" /\ p.value = TRUE)
                                          \/ (p.inputType = "text" /\ p.value # ""))
    IN  [i \in DOMAIN set |-> <<set[i].name, set[i].value>>]

\* C16: with a command loaded, onSubmit(action) posts one message, a "submit"
\* with the action, the name of the command and the [name, value] pairs of the
\* fields of the selected set that have a value, in their stored order; it
\* changes no state.
C16_SubmitMessage ==
    [][(SubmitStep /\ command # Null)
         => /\ UNCHANGED viewState
            /\ selectedParameterSet \in DOMAIN parameterSetInputs
            /\ posted' = <<[type |-> "submit",
                            payload |->
                               [action |-> lastOp'.action,
                                commandName |-> command.name,
                                parameters |-> ClaimedParameters(
                                    parameterSetInputs[selectedParameterSet])]]>>]_vars

----------------------------------------------------------------------------
(* C18 *)

\* C18: onSubmit with no command loaded throws, posts no message and changes no state.
C18_SubmitOfNoCommand ==
    [][(SubmitStep /\ command = Null)
         => (thrown' /\ posted' = <<>> /\ UNCHANGED viewState)]_vars

\* a submit on a view-model of no command
C18_Witness ==
    /\ lastOp.op = "onSubmit"
    /\ command = Null
    /\ thrown
    /\ posted = <<>>

----------------------------------------------------------------------------
(* C19 *)

RECURSIVE TotalFields(_, _)
TotalFields(inputs, names) ==
    IF names = {} THEN 0
    ELSE LET n == CHOOSE n \in names : TRUE
         IN  Len(inputs[n]) + TotalFields(inputs, names \ {n})

\* C19: every setCommandElements call carries moduleLoaded = false exactly when
\* the command has a module name and the sets have no field at all.
C19_ModuleLoaded ==
    \A i \in DOMAIN viewCalls :
        viewCalls[i].fn = "setCommandElements" =>
            (viewCalls[i].arg.moduleLoaded = FALSE
                <=> (command.moduleName # ""
                        /\ TotalFields(parameterSetInputs, DOMAIN parameterSetInputs) = 0))

\* a command of a module and of no field was loaded
C19_Witness ==
    /\ Len(viewCalls) >= 1
    /\ viewCalls[1].fn = "setCommandElements"
    /\ viewCalls[1].arg.moduleLoaded = FALSE
    /\ viewCalls[1].arg.moduleName = "SampleModule"

----------------------------------------------------------------------------
(* C20 *)

\* C20: an onCommandChanged that loads a command calls setCommandElements once,
\* with the names of the command, of its module, of its sets in declaration
\* order and of the selected set, then setParameterInputs once, with the fields
\* of the selected set, and posts no message.
C20_LoadNotifications ==
    [][LoadStep =>
         /\ Len(viewCalls') = 2
         /\ viewCalls'[1].fn = "setCommandElements"
         /\ viewCalls'[1].arg.commandName = command'.name
         /\ viewCalls'[1].arg.moduleName = command'.moduleName
         /\ viewCalls'[1].arg.parameterSets = SetNames(command')
         /\ viewCalls'[1].arg.selectedParameterSet = selectedParameterSet'
         /\ selectedParameterSet' \in DOMAIN parameterSetInputs'
         /\ viewCalls'[2] = [fn |-> "setParameterInputs",
                             arg |-> parameterSetInputs'[selectedParameterSet']]
         /\ posted' = <<>>]_vars

----------------------------------------------------------------------------
(* Steps of the provider, the webview script and the view-model together *)

\* the view-model receives the next message of the provider
ViewReceives(type) ==
    toView # <<>> /\ toView' = Tail(toView) /\ Head(toView).type = type

\* the provider receives the next message of the view-model
ProviderReceives(type) ==
    toHost # <<>> /\ toHost' = Tail(toHost) /\ Head(toHost).type = type

----------------------------------------------------------------------------
(* C13 *)

\* C13: the state the provider sends back, which is one persistState posted, is
\* a state of a command with its selected set among its keys; onSetState makes
\* command, selectedParameterSet and parameterSetInputs equal to those of that
\* state, on the view-model that posted it and on a new one, and calls
\* setCommandElements and then setParameterInputs with the fields of the
\* selected set.
C13_RestoreRoundTrip ==
    [][ViewReceives("setState") =>
         LET S == Head(toView).payload.newState
         IN  /\ S.command # Null
             /\ S.selectedParameterSet \in DOMAIN S.parameterSetInputs
             /\ command' = S.command
             /\ selectedParameterSet' = S.selectedParameterSet
             /\ parameterSetInputs' = S.parameterSetInputs
             /\ ~thrown'
             /\ Len(viewCalls') = 2
             /\ viewCalls'[1].fn = "setCommandElements"
             /\ viewCalls'[1].arg.commandName = S.command.name
             /\ viewCalls'[1].arg.parameterSets = SetNames(S.command)
             /\ viewCalls'[1].arg.selectedParameterSet = S.selectedParameterSet
             /\ viewCalls'[2] = [fn |-> "setParameterInputs",
                                 arg |-> S.parameterSetInputs[S.selectedParameterSet]]]_vars

\* a view-model that had not loaded the command has been restored to a state
\* with an edited field in each set and the second set selected
C13_Witness ==
    /\ lastOp.op = "onSetState"
    /\ loadedFrom = Null
    /\ command # Null
    /\ lastOp.state = StateOf(command, parameterSetInputs, selectedParameterSet)
    /\ selectedParameterSet = "LiteralPath"
    /\ \A n \in DOMAIN parameterSetInputs :
          \E i \in DOMAIN parameterSetInputs[n] : IsSet(parameterSetInputs[n][i])
    /\ Len(viewCalls) = 2

----------------------------------------------------------------------------
(* C15 *)

\* C15: when the view has become visible and the view-model, new or not, has
\* received the "setState" message of the persisted state S and then receives
\* the "commandChanged" message of the provider's selected command, which is the
\* command of S, its command, selectedParameterSet and field values are those
\* of S.
C15_ValuesSurviveHideShow ==
    [][(/\ ViewReceives("commandChanged")
        /\ Head(toView).payload.command = selectedCommand
        /\ lastOp.op = "onSetState"
        /\ lastOp.state = webviewState
        /\ webviewState # Null
        /\ WithFallback(selectedCommand) = webviewState.command)
         => /\ command' = webviewState.command
            /\ selectedParameterSet' = webviewState.selectedParameterSet
            /\ parameterSetInputs' = webviewState.parameterSetInputs]_vars

\* a view-model that had not loaded the command holds, after the two messages,
\* the persisted state: an edited field in each set, the second set selected
C15_Witness ==
    /\ lastOp.op = "onCommandChanged"
    /\ lastOp.command = selectedCommand
    /\ viewCalls = <<>>
    /\ loadedFrom = Null
    /\ command # Null
    /\ webviewState = StateOf(command, parameterSetInputs, selectedParameterSet)
    /\ selectedParameterSet = "LiteralPath"
    /\ \A n \in DOMAIN parameterSetInputs :
          \E i \in DOMAIN parameterSetInputs[n] : IsSet(parameterSetInputs[n][i])

----------------------------------------------------------------------------
(* C17 *)

\* the tokens the claim gives for a sequence of fields: "-name" for a checked
\* checkbox, "-name" and the value for a text field that is not empty
RECURSIVE ClaimedTokens(_)
ClaimedTokens(list) ==
    IF list = <<>> THEN <<>>
    ELSE LET p == Head(list)
             tokens == IF p.inputType = "checkbox"
                       THEN (IF p.value = TRUE THEN << <<"-", p.name>> >> ELSE <<>>)
                       ELSE (IF p.value # "" THEN << <<"-", p.name>>, p.value >> ELSE <<>>)
         IN  tokens \o ClaimedTokens(Tail(list))

\* C17: when the provider receives the "submit" message of an onSubmit, what it
\* runs, inserts or copies is the expression made of the name of the command
\* and the tokens of the set fields of the selected set.
C17_SubmittedExpression ==
    [][(/\ ProviderReceives("submit")
        /\ lastOp.op = "onSubmit"
        /\ ~thrown)
         => /\ hostDid' # <<>>
            /\ hostDid'[1] =
                 [action |-> Head(toHost).payload.action,
                  expression |->
                     [tokens |-> <<command.name>>
                                   \o ClaimedTokens(parameterSetInputs[selectedParameterSet])]]]_vars

----------------------------------------------------------------------------
(* Steps of the provider alone *)

\* provider.onMessage is called with a message of the type
ProviderHandles(type) ==
    providerOp'.op = "onMessage" /\ providerOp'.message.type = type

\* view.visible has become true and onViewChangedVisibility runs to its first await
BecomesVisible == providerOp'.op = "onViewChangedVisibility" /\ visible'

\* view.visible has become false and onViewChangedVisibility runs
BecomesHidden == providerOp'.op = "onViewChangedVisibility" /\ ~visible'

\* onViewChangedVisibility goes on after the "setState" message it awaited
VisibilityResumes == providerOp'.op = "onViewChangedVisibilityResumes"

SetCommandStep == providerOp'.op = "setCommand"

SetStateMessageOf(state) == [type |-> "setState", payload |-> [newState |-> state]]

----------------------------------------------------------------------------
(* C21 *)

----------------------------------------------------------------------------
(* C22 *)

\* C22: when the view becomes hidden the provider posts nothing; when it
\* becomes visible with a webviewState the provider posts the "setState" message
\* of it, and the call that posted it posts nothing more; when it becomes
\* visible with no webviewState the provider posts the "commandChanged" message
\* of selectedCommand if there is one, and nothing otherwise.
C22_VisibilityMessages ==
    [][/\ BecomesHidden => toView' = toView
       /\ (BecomesVisible /\ webviewState # Null)
            => toView' = Append(toView, SetStateMessageOf(webviewState))
       /\ VisibilityResumes => toView' = toView
       /\ (BecomesVisible /\ webviewState = Null /\ selectedCommand # Undefined)
            => toView' = Append(toView, CommandChangedMessage(selectedCommand))
       /\ (BecomesVisible /\ webviewState = Null /\ selectedCommand = Undefined)
            => toView' = toView]_vars

----------------------------------------------------------------------------
(* C23 *)

\* C23: when setCommand was called after webviewState was last assigned, with a
\* command that is not the one of that state, and the view then becomes
\* visible, what the provider posts is the "commandChanged" message of that
\* command, and no "setState" message.
C23_NewCommandSupersedesState ==
    [][(/\ BecomesVisible
        /\ webviewState # Null
        /\ commandSetSince
        /\ webviewState.command # selectedCommand)
         => toView' = Append(toView, CommandChangedMessage(selectedCommand))]_vars

----------------------------------------------------------------------------
(* C24 *)

\* whether the ICommand has the name, the module name, the parameters, the
\* parameter sets and the default parameter set of the Command of the explorer
HasFieldsOf(icommand, c) ==
    /\ icommand # Undefined
    /\ icommand.name = c.Name
    /\ icommand.moduleName = c.ModuleName
    /\ icommand.parameters = c.Parameters
    /\ icommand.parameterSets = c.ParameterSets
    /\ icommand.defaultParameterSet = c.defaultParameterSet

----------------------------------------------------------------------------
(* C25 *)

\* the one effect the claim gives for a "submit" message: none for "insert"
\* when there is no active editor
ClaimedEffect(payload, editor) ==
    IF payload.action = "insert" /\ editor = Undefined THEN <<>>
    ELSE <<[action |-> payload.action, expression |-> payload.expression]>>

\* C25 as it is stated: for every "submit" message what the provider does is
\* the one effect of the action, with the expression of the message, and
\* nothing else; webviewState and selectedCommand stay as they were.
C25_OneEffect ==
    [][ProviderHandles("submit")
         => /\ hostDid' = ClaimedEffect(providerOp'.message.payload, activeTextEditor)
            /\ webviewState' = webviewState
            /\ selectedCommand' = selectedCommand]_vars

\* C25, amended: for every "submit" message what the provider does is the one
\* effect of the action, with the expression of the message, followed for
\* "copy" by the information message "Command copied to clipboard.", and
\* nothing else; webviewState and selectedCommand stay as they were.
C25_SubmitEffects ==
    [][ProviderHandles("submit")
         => LET payload == providerOp'.message.payload
            IN  /\ hostDid' =
                     ClaimedEffect(payload, activeTextEditor)
                       \o (IF payload.action = "copy"
                           THEN <<[action |-> "showInformationMessage",
                                   message |-> "Command copied to clipboard."]>>
                           ELSE <<>>)
                /\ webviewState' = webviewState
                /\ selectedCommand' = selectedCommand]_vars

\* a provider with a persisted state and a selected command has handled a
\* "copy": the clipboard is written, then the information message is shown
C25_Witness ==
    /\ providerOp.op = "onMessage"
    /\ providerOp.message.type = "submit"
    /\ providerOp.message.payload.action = "copy"
    /\ Len(hostDid) = 2
    /\ hostDid[1] = [action |-> "copy", expression |-> SampleExpression]
    /\ hostDid[2].action = "showInformationMessage"
    /\ webviewState # Null
    /\ selectedCommand # Undefined

----------------------------------------------------------------------------
(* C26 *)

\* whether P holds of every parameter of every set of the command together
\* with the one field of its name among the fields of that set
EveryDerivedField(cmd, inputs, P(_, _)) ==
    \A k \in DOMAIN cmd.parameterSets :
        LET set == cmd.parameterSets[k]
        IN  /\ set.name \in DOMAIN inputs
            /\ \A i \in DOMAIN set.parameters :
                  /\ Cardinality({j \in DOMAIN inputs[set.name] :
                                     inputs[set.name][j].name = set.parameters[i].name}) = 1
                  /\ \A j \in DOMAIN inputs[set.name] :
                        inputs[set.name][j].name = set.parameters[i].name
                            => P(set.parameters[i], inputs[set.name][j])

\* the type name starts with System.Management.Automation.SwitchParameter
NamesSwitchType(type) ==
    type[1] \in {"System.Management.Automation.SwitchParameter",
                 "System.Management.Automation.SwitchParameter[]"}

ClaimedKind(parameter, field) ==
    /\ field.name = parameter.name
    /\ field.required = parameter.isMandatory
    /\ field.common = (parameter.name \in commonParameterNames)
    /\ IF NamesSwitchType(parameter.parameterType)
       THEN field.inputType = "checkbox" /\ field.value = FALSE
       ELSE field.inputType = "text" /\ field.value = ""

\* C26: after a load, every parameter of every set has one field of its name
\* in the fields of that set, a checkbox of value false when the name of its
\* type starts with that of the switch type and a text field of value ""
\* otherwise, required as the parameter is mandatory, and common exactly when
\* its name is one of the 12 common parameter names.
C26_DerivedFieldKinds ==
    [][LoadStep =>
         /\ Cardinality(commonParameterNames) = 12
         /\ EveryDerivedField(command', parameterSetInputs', ClaimedKind)]_vars

\* the command of the parameters verbose, Recurse and Filter is loaded: a text
\* field that is not common, a checkbox, and a text field
C26_Witness ==
    /\ lastOp.op = "onCommandChanged"
    /\ command \in TypeCommands
    /\ \E n \in DOMAIN parameterSetInputs :
          LET list == parameterSetInputs[n]
          IN  /\ Len(list) = Len(TypePool)
              /\ \E j \in DOMAIN list :
                    list[j].name = "verbose" /\ ~list[j].common /\ list[j].required
              /\ \E j \in DOMAIN list :
                    list[j].name = "Recurse" /\ list[j].inputType = "checkbox"
              /\ \E j \in DOMAIN list :
                    list[j].name = "Filter" /\ list[j].inputType = "text"

----------------------------------------------------------------------------
(* C27 *)

\* the tooltip of the claim, as its lines
ClaimedTooltip(parameter, position) ==
    << <<"Type: ", parameter.parameterType[1]>> >>
    \o (IF position # NullPosition THEN << <<"Position: ", ToString(position)>> >> ELSE <<>>)
    \o << <<IF parameter.isMandatory THEN "Mandatory" ELSE "Optional">> >>
    \o (IF parameter.valueFromPipeline
        THEN << <<"Can receive value from pipeline">> >> ELSE <<>>)

ClaimedPositionAndTooltip(parameter, field) ==
    /\ field.position = IF parameter.position >= 0 THEN parameter.position ELSE NullPosition
    /\ field.tooltip = ClaimedTooltip(parameter, field.position)

\* C27: after a load, the field of every parameter has the position of the
\* parameter when that is not negative and the null position otherwise, and the
\* tooltip of the lines "Type: <first segment of the type name>",
\* "Position: <position>" when the position of the field is not null,
\* "Mandatory" or "Optional", and "Can receive value from pipeline" when the
\* parameter takes its value from the pipeline.
C27_PositionAndTooltip ==
    [][LoadStep =>
         EveryDerivedField(command', parameterSetInputs', ClaimedPositionAndTooltip)]_vars

\* a loaded set has a field of position 0 with a tooltip of four lines and a
\* field of no position with a tooltip of two lines
C27_Witness ==
    /\ lastOp.op = "onCommandChanged"
    /\ command # Null
    /\ \E n \in DOMAIN parameterSetInputs :
          LET list == parameterSetInputs[n]
          IN  /\ \E j \in DOMAIN list :
                    /\ list[j].position = 0
                    /\ Len(list[j].tooltip) = 4
                    /\ list[j].tooltip[2] = <<"Position: ", "0">>
              /\ \E j \in DOMAIN list :
                    /\ list[j].position = NullPosition
                    /\ Len(list[j].tooltip) = 2

----------------------------------------------------------------------------
(* C28 *)

\* C28: CommandInfoViewModel.onMessage with a message of a type other than
\* "commandChanged" and "setState" leaves command, selectedParameterSet and
\* parameterSetInputs as they were, calls no view function, posts nothing and
\* does not throw; CommandInfoViewProvider.onMessage with a message of a type
\* other than "submit", "import" and "setState" leaves webviewState and
\* selectedCommand as they were, posts nothing and does nothing.
C28_UnaddressedMessages ==
    [][/\ (providerOp'.op = "postMessage" /\ lastOp'.op = "onMessage")
            => /\ lastOp'.data.type \notin {"commandChanged", "setState"}
               /\ viewState' = viewState
               /\ viewCalls' = <<>>
               /\ posted' = <<>>
               /\ ~thrown'
       /\ (/\ providerOp'.op = "onMessage"
           /\ providerOp'.message.type \notin {"submit", "import", "setState"})
            => /\ webviewState' = webviewState
               /\ selectedCommand' = selectedCommand
               /\ toView' = toView
               /\ pc' = pc
               /\ hostDid' = <<>>]_vars

\* a view-model with a loaded command was given an "import" message, and then a
\* provider with a persisted state and a selected command a "commandChanged" one
C28_Witness ==
    /\ lastOp.op = "onMessage"
    /\ lastOp.data.type = "import"
    /\ command # Null
    /\ DOMAIN parameterSetInputs # {}
    /\ providerOp.op = "onMessage"
    /\ providerOp.message.type = "commandChanged"
    /\ webviewState # Null
    /\ selectedCommand # Undefined

----------------------------------------------------------------------------
(* C29 *)

\* C29: onImportModule leaves command, selectedParameterSet and
\* parameterSetInputs as they were and calls no view function; with a command
\* loaded it posts one "import" message of the moduleName of that command and
\* does not throw; with none it throws and posts nothing.
C29_ImportModule ==
    [][lastOp'.op = "onImportModule" =>
         /\ viewState' = viewState
         /\ viewCalls' = <<>>
         /\ IF command = Null
            THEN thrown' /\ posted' = <<>>
            ELSE /\ ~thrown'
                 /\ posted' = <<[type |-> "import",
                                 payload |-> [moduleName |-> command.moduleName]]>>]_vars

\* the module of a loaded command, one of whose fields has a value, is imported
C29_Witness ==
    /\ lastOp.op = "onImportModule"
    /\ command # Null
    /\ command.moduleName = "SampleModule"
    /\ \E n \in DOMAIN parameterSetInputs :
          \E i \in DOMAIN parameterSetInputs[n] : IsSet(parameterSetInputs[n][i])
    /\ Len(posted) = 1
    /\ posted[1].type = "import"

----------------------------------------------------------------------------
(* C30 *)

\* the command with the fallback set appended when it has no parameter set
WithClaimedFallback(c) ==
    IF c.parameterSets = <<>>
    THEN [c EXCEPT !.parameterSets =
            <<[name |-> "__AllParameterSets", isDefault |-> TRUE, parameters |-> <<>>]>>]
    ELSE c

\* C30: after a load the command is the one onCommandChanged was given, name,
\* module, default set, sets and parameters of the sets in their order, with
\* the fallback set appended when it had no set; a load that is skipped, a
\* selection, an edit, an import and a submit leave the command as it was, and
\* a state that is persisted carries it as it is.
C30_CommandNotMutated ==
    [][/\ LoadStep => command' = WithClaimedFallback(lastOp'.command)
       /\ (lastOp'.op = "onCommandChanged" /\ ~LoadStep) => command' = command
       /\ (lastOp'.op \in {"onSelectedParameterSetChanged", "onParameterValueChanged",
                           "onImportModule", "onSubmit"})
            => /\ command' = command
               /\ \A i \in DOMAIN posted' :
                     posted'[i].type = "setState"
                         => posted'[i].payload.newState.command = command]_vars

\* a command whose fields are not in the order of its parameters is the
\* command that was loaded, after an edit of a field and the state persisted
C30_Witness ==
    /\ lastOp.op = "onParameterValueChanged"
    /\ ~thrown
    /\ command # Null
    /\ command = loadedFrom
    /\ Len(posted) = 1
    /\ posted[1].payload.newState.command = loadedFrom
    /\ \E k \in DOMAIN command.parameterSets :
          LET set == command.parameterSets[k]
          IN  /\ Len(set.parameters) = MaxParams
              /\ FieldNames(parameterSetInputs[set.name]) # FieldNames(set.parameters)
              /\ \E i \in DOMAIN parameterSetInputs[set.name] :
                    IsSet(parameterSetInputs[set.name][i])

----------------------------------------------------------------------------
(* C31 *)

\* the handlers that are no restore: a call of one of them, throwing or not
IsHandlerCall(op) ==
    op \in {"onCommandChanged", "onSelectedParameterSetChanged",
            "onParameterValueChanged", "onSubmit", "onImportModule"}

\* C31: a view-model that was just constructed has no command; a view-model
\* that has a command still has one after every call of onCommandChanged,
\* onSelectedParameterSetChanged, onParameterValueChanged, onSubmit and
\* onImportModule, whether the call throws or not; and the one call that takes
\* the command of a view-model away is onSetState of a state whose command is
\* null.
C31_EmptyOnlyByRestore ==
    /\ [](lastOp.op = "constructor" => command = Null)
    /\ [][/\ (command # Null /\ IsHandlerCall(lastOp'.op)) => command' # Null
          /\ (command # Null /\ command' = Null /\ lastOp'.op # "constructor")
               => (lastOp'.op = "onSetState" /\ lastOp'.state.command = Null)
          /\ (lastOp'.op = "onSetState" /\ lastOp'.state.command = Null)
               => command' = Null]_vars

\* a view-model with a command whose selected set is no key has thrown on an
\* edit, and has its command still
C31_Witness ==
    /\ lastOp.op = "onParameterValueChanged"
    /\ thrown
    /\ command # Null
    /\ loadedFrom # Null
    /\ selectedParameterSet \notin DOMAIN parameterSetInputs

----------------------------------------------------------------------------
(* C32 *)

----------------------------------------------------------------------------
(* C33 *)

Sign(n) == IF n < 0 THEN -1 ELSE IF n > 0 THEN 1 ELSE 0

\* the array that was sorted is the one sorted before, in another order
SortsReordered == Len(declared') = Len(declared) /\ declared' # declared

\* C33: for all fields a, b and c, of any `common`, name and position, the
\* sign of compare(a, b) is the opposite of the sign of compare(b, a),
\* compare(a, a) is 0, and a before-or-equal b and b before-or-equal c give a
\* before-or-equal c, strictly when one of the two is strict; the sorted array
\* is in the order of the comparer, and when the same fields are declared in
\* another order every place of the sorted array holds a field that compares
\* equal to the one it held.  (Every a, b and c are three fields in a row of
\* some declared array.)
C33_ConsistentOrder ==
    /\ [](\A i \in DOMAIN declared :
            /\ compareParameterInputObjects(declared[i], declared[i]) = 0
            /\ (i + 1) \in DOMAIN declared =>
                  Sign(compareParameterInputObjects(declared[i], declared[i + 1]))
                      = -Sign(compareParameterInputObjects(declared[i + 1], declared[i]))
            /\ (i + 2) \in DOMAIN declared =>
                  LET ab == compareParameterInputObjects(declared[i], declared[i + 1])
                      bc == compareParameterInputObjects(declared[i + 1], declared[i + 2])
                      ac == compareParameterInputObjects(declared[i], declared[i + 2])
                  IN  /\ (ab <= 0 /\ bc <= 0) => ac <= 0
                      /\ (ab <= 0 /\ bc <= 0 /\ (ab < 0 \/ bc < 0)) => ac < 0)
    /\ [](\A i \in DOMAIN sorted :
            (i + 1) \in DOMAIN sorted =>
                compareParameterInputObjects(sorted[i], sorted[i + 1]) <= 0)
    /\ [][SortsReordered =>
            \A i \in DOMAIN sorted :
               compareParameterInputObjects(sorted'[i], sorted[i]) = 0]_vars

\* Three fields were declared in an order that is not the sorted one and
\* sorted: two of them differ and compare equal, one is common and has a
\* position, one is not common and has none.
C33_Witness ==
    /\ Len(declared) = MaxFields
    /\ declared # sorted
    /\ \E i, j \in DOMAIN sorted :
          /\ i < j
          /\ sorted[i] # sorted[j]
          /\ compareParameterInputObjects(sorted[i], sorted[j]) = 0
    /\ \E i, j \in DOMAIN sorted :
          compareParameterInputObjects(sorted[i], sorted[j]) < 0
    /\ \E i \in DOMAIN sorted : sorted[i].common /\ sorted[i].position # NullPosition
    /\ \E i \in DOMAIN sorted : ~sorted[i].common /\ sorted[i].position = NullPosition

----------------------------------------------------------------------------
(* C34 *)

\* what a view function is told is the state given
NotifiedOf(call, cmd, inputs, selected) ==
    IF call.fn = "setCommandElements"
    THEN /\ call.arg.commandName = cmd.name
         /\ call.arg.moduleName = cmd.moduleName
         /\ call.arg.parameterSets = SetNames(cmd)
         /\ call.arg.selectedParameterSet = selected
         /\ call.arg.moduleLoaded
                = (cmd.moduleName = "" \/ \E n \in DOMAIN inputs : inputs[n] # <<>>)
    ELSE IF "arg" \in DOMAIN call
    THEN selected \in DOMAIN inputs /\ call.arg = inputs[selected]
    ELSE selected \notin DOMAIN inputs

\* C34: when onCommandChanged is over, by its last statement or by the throw
\* of a view function, either it has skipped, the state is as it was and no
\* view function was called, or the command is the one it was given (with the
\* fallback set), the keys of parameterSetInputs are the names of the sets of
\* that command, the fields of each key are the fields newly derived from the
\* parameters of that set, the selected set is the default parameter set of
\* that command or one of its sets, and every view function it called was
\* told of that command, those fields and that selection.
C34_LoadIsAtomic ==
    [][lastOp'.op = "onCommandChanged" =>
         IF ~LoadStep
         THEN UNCHANGED viewState /\ viewCalls' = <<>>
         ELSE /\ command' = WithClaimedFallback(lastOp'.command)
              /\ DOMAIN parameterSetInputs' = Range(SetNames(command'))
              /\ \A k \in DOMAIN command'.parameterSets :
                    OneFieldPerParameter(
                        parameterSetInputs'[command'.parameterSets[k].name],
                        command'.parameterSets[k].parameters)
              /\ selectedParameterSet'
                    \in {command'.defaultParameterSet} \cup Range(SetNames(command'))
              /\ \A i \in DOMAIN viewCalls' :
                    NotifiedOf(viewCalls'[i], command', parameterSetInputs',
                               selectedParameterSet')]_vars

\* A command was loaded over another one, a field of which had a value, and
\* the load ended by the throw of setParameterInputs, after the two calls.
C34_Witness ==
    /\ lastOp.op = "onCommandChanged"
    /\ lastOp.replacedValues
    /\ thrown
    /\ command # Null
    /\ Len(viewCalls) = 2
    /\ selectedParameterSet = command.defaultParameterSet
    /\ selectedParameterSet \notin DOMAIN parameterSetInputs

----------------------------------------------------------------------------
(* C35 *)

\* C35: onSelectedParameterSetChanged(name) with a name that is no key of
\* parameterSetInputs does not throw and leaves selectedParameterSet, command
\* and parameterSetInputs as they were.
C35_SelectUnknownSet ==
    [][(SelectStep /\ lastOp'.selected \notin DOMAIN parameterSetInputs)
         => (~thrown' /\ UNCHANGED viewState)]_vars

----------------------------------------------------------------------------
(* C36 *)

\* C36: when a view-model has loaded a command, has been restored from a state
\* it persisted after an edit, and is then given by onCommandChanged a command
\* deep-equal to the one it was first given, whatever the number of its
\* parameter sets, the call changes none of command, selectedParameterSet and
\* parameterSetInputs and calls no view function.
C36_SkipAfterRestore ==
    [][(/\ lastOp'.op = "onCommandChanged"
        /\ lastOp.op = "onSetState"
        /\ lastOp.state.command # Null
        /\ loadedFrom # Null
        /\ lastOp'.command = loadedFrom)
         => (UNCHANGED viewState /\ viewCalls' = <<>>)]_vars

----------------------------------------------------------------------------
(* C37 *)

\* the view-model takes the last message the provider has posted, and no call
\* of onViewChangedVisibility is waiting to post another one
TakesLastMessage ==
    /\ providerOp'.op = "postMessage"
    /\ toView # <<>>
    /\ toView' = <<>>
    /\ pc = "idle"

----------------------------------------------------------------------------
(* C38 *)

\* the step is a CommandExplorerRefresh: every change of the setting changes it
RefreshStep == exclusions' = exclusions

\* whether the module is one of the exclude filter, whatever the case
IsExcluded(module, filters) ==
    \E k \in DOMAIN filters : toLowerCase(filters[k]) = toLowerCase(module)

\* C38: after CommandExplorerRefresh the list of the explorer has no command
\* of a module that is, whatever the case, an entry of the exclude filter, no
\* two commands of the same name next to each other, and a command of every
\* name that the answer of the server has in a module that is not excluded.
C38_ExplorerList ==
    [][RefreshStep =>
         /\ \A i \in DOMAIN powerShellCommands' :
               ~IsExcluded(powerShellCommands'[i].ModuleName, exclusions)
         /\ \A i \in DOMAIN powerShellCommands' :
               (i + 1) \in DOMAIN powerShellCommands'
                   => powerShellCommands'[i].Name # powerShellCommands'[i + 1].Name
         /\ \A i \in DOMAIN result' :
               ~IsExcluded(result'[i].moduleName, exclusions)
                   => \E k \in DOMAIN powerShellCommands' :
                         powerShellCommands'[k].Name = result'[i].name]_vars

----------------------------------------------------------------------------
(* C39 *)

\* the forms of the DOM webview that are shown
ShownForms(forms) == {i \in DOMAIN forms : ~forms[i].hidden}

\* the options of the dropdown that were created for a default parameter set
DefaultOptions(select) == {k \in DOMAIN select.options : select.options[k].defaultSelected}

\* C39: loadCommand shows the form of the first parameter set by force, that
\* is although the set is no default one, only if no set of the command is a
\* default one; so after loadCommand of a command of several sets, exactly one
\* of them default, the one form shown is that of the default set, which is
\* the option selected in the dropdown; and after every
\* onParameterSetSelectionChanged the one form shown is the one named by the
\* selected option.
C39_OneFormShown ==
    [][/\ (webviewEvent' = "message" /\ Len(divParameterForms') > 1) =>
             /\ (1 \in ShownForms(divParameterForms')
                     /\ 1 \notin DefaultOptions(selectParameterSet'))
                    => DefaultOptions(selectParameterSet') = {}
             /\ Cardinality(DefaultOptions(selectParameterSet')) = 1
                    => /\ ShownForms(divParameterForms') = DefaultOptions(selectParameterSet')
                       /\ selectParameterSet'.selectedIndex \in DefaultOptions(selectParameterSet')
       /\ webviewEvent' = "change" =>
             /\ Cardinality(ShownForms(divParameterForms')) = 1
             /\ \A i \in ShownForms(divParameterForms') :
                   divParameterForms'[i].name =
                       selectParameterSet'.options[selectParameterSet'.selectedIndex].value]_vars

====
